---- MODULE Spec2Model ----
(***************************************************************************)
(* quicky: the project/configuration state machine of the CLI (the latest  *)
(* revision in src/index.js, lines 2155-4595).  In Spec one invocation     *)
(* runs at a time: it loads the config file, runs one command step by step *)
(* and exits.  External tools (git, npm, pm2, nginx, certbot, the GitHub   *)
(* API) succeed or fail nondeterministically.  SpecRace runs two           *)
(* invocations at once, SpecRemoveDomain calls removeDomain from every     *)
(* state of the proxy files, SpecPorts follows deploy's port from the      *)
(* option and the prompts to the start command, SpecUpdate runs            *)
(* `update <pid>` on records of earlier revisions and next to projects     *)
(* named like a backup directory, SpecRoundTrip loads and saves the config *)
(* file as JSON, and SpecOverlap runs two updates of one project at once.  *)
(***************************************************************************)
EXTENDS Integers, Sequences, FiniteSets, TLC

VARIABLES
  disk,          \* the parsed content of config.json
  config,        \* the in-memory config object of the running invocation
  dirs,          \* ~/.quicky/projects: directory name -> content
  temp,          \* ~/.quicky/temp: repo -> content
  pm2,           \* supervisor: process name -> process
  nginxAvail,    \* /etc/nginx/sites-available: name -> proxied port
  nginxEnabled,  \* names with a symlink in /etc/nginx/sites-enabled
  certs,         \* certificate names certbot holds
  hooks,         \* ids of the push webhooks that exist on GitHub
  run,           \* number of invocations started so far
  pc,            \* position of the running invocation
  cmd,           \* locals of the running invocation
  trace,         \* steps the running invocation has executed, in order
  exitCode,      \* exit code of the last invocation
  pre            \* disk, dirs and pm2 as they were when the invocation began

vars == <<disk, config, dirs, temp, pm2, nginxAvail, nginxEnabled, certs,
          hooks, run, pc, cmd, trace, exitCode, pre>>

----------------------------------------------------------------------------
(* Bounds *)

MaxRuns == 3

Repos == {"app", "a.io"}
Owners == {"acme"}
Ports == {3000}
PidOrder == <<"a1b2c", "d3e4f">>
Pids == {PidOrder[i] : i \in 1..Len(PidOrder)}
Domains == {"a.io"}
ProjectTypes == {"Next.js", "Node.js"}

----------------------------------------------------------------------------
(* Values *)

NoPort == 0
HookNull == 0
HookUndefined == 0 - 1
NoFile == 0 - 1
NoVer == 0 - 1
NoDir == [ver |-> NoVer, env |-> 0]
NoProc == [status |-> "none", ver |-> NoVer]

repoPath(repo) == repo
backupPath(repo) == repo \o "_backup"
failedPath(repo) == repo \o "_failed"

Names == Repos \cup Domains

DirNames == Repos \cup {backupPath(r) : r \in Repos}
                  \cup {failedPath(r) : r \in Repos}

existsSync(d, name) == d[name] # NoDir

toLowerCase(s) == CASE s = "Next.js" -> "next.js"
                    [] s = "Node.js" -> "node.js"
                    [] OTHER -> s

\* Array.prototype.find: index of the first match, 0 when there is none
findByRepo(ps, repo) ==
  IF \E i \in 1..Len(ps) : ps[i].repo = repo
  THEN CHOOSE i \in 1..Len(ps) :
         ps[i].repo = repo /\ \A j \in 1..(i - 1) : ps[j].repo # repo
  ELSE 0

findByPid(ps, pid) ==
  IF \E i \in 1..Len(ps) : ps[i].pid = pid
  THEN CHOOSE i \in 1..Len(ps) :
         ps[i].pid = pid /\ \A j \in 1..(i - 1) : ps[j].pid # pid
  ELSE 0

NoCmd == [name |-> "none", owner |-> "", repo |-> "", type |-> "",
          port |-> NoPort, pid |-> "", webhookId |-> HookUndefined,
          promptEnv |-> FALSE, byPid |-> FALSE, idx |-> 0]

----------------------------------------------------------------------------
(* Config store *)

\* saveConfig: the whole in-memory object overwrites the file
saveConfig(c) == disk' = c

\* mutant: the type argument is dropped and the default "next.js" stored
updatedProjectsDefaultType(c, pid, owner, repo, port, webhookId, type, now) ==
  [c EXCEPT !.projects = Append(@,
     [pid |-> pid, owner |-> owner, repo |-> repo, port |-> port,
      webhookId |-> webhookId, type |-> "next.js", last_updated |-> now])]

\* the config after updateProjectsConfig's find / update-or-push
updatedProjects(c, pid, owner, repo, port, webhookId, type, now) ==
  LET i == findByRepo(c.projects, repo) IN
  IF i # 0
  THEN [c EXCEPT !.projects[i].port = port,
                 !.projects[i].owner = owner,
                 !.projects[i].type = type,
                 !.projects[i].last_updated = now]
  ELSE [c EXCEPT !.projects = Append(@,
          [pid |-> pid, owner |-> owner, repo |-> repo, port |-> port,
           webhookId |-> webhookId, type |-> type, last_updated |-> now])]

updateProjectsConfig(pid, owner, repo, port, webhookId, type) ==
  /\ config' = updatedProjects(config, pid, owner, repo, port, webhookId,
                               type, run)
  /\ saveConfig(config')

----------------------------------------------------------------------------
(* Invocation start and end *)

\* the config file as first created, { projects: [] }
emptyConfig ==
  [projects |-> <<>>, domains |-> <<>>, github |-> FALSE, webhook |-> FALSE,
   email |-> FALSE]

\* a server where nothing ran yet, one where `init` ran, and one where
\* `init` and a first deploy have completed (version 0 of the project)
Init ==
  /\ \E installed \in {"fresh", "init", "deployed"} :
       /\ disk = CASE installed = "fresh" -> emptyConfig
                   [] installed = "init" ->
                        [emptyConfig EXCEPT !.github = TRUE]
                   [] OTHER ->
                        updatedProjects(
                          [emptyConfig EXCEPT !.github = TRUE],
                          PidOrder[1], "acme", "app",
                          CHOOSE p \in Ports : TRUE, HookUndefined,
                          toLowerCase("Next.js"), 0)
       /\ dirs = [n \in DirNames |->
                   IF installed = "deployed" /\ n = repoPath("app")
                   THEN [ver |-> 0, env |-> 0] ELSE NoDir]
       /\ pm2 = [r \in Repos |->
                  IF installed = "deployed" /\ r = "app"
                  THEN [status |-> "online", ver |-> 0] ELSE NoProc]
  /\ config = disk
  /\ temp = [r \in Repos |-> NoDir]
  /\ nginxAvail = [n \in Names |-> NoFile]
  /\ nginxEnabled = {}
  /\ certs = {}
  /\ hooks = {}
  /\ run = 0
  /\ pc = "idle"
  /\ cmd = NoCmd
  /\ trace = <<>>
  /\ exitCode = "none"
  /\ pre = [disk |-> disk, dirs |-> dirs, pm2 |-> pm2]

\* a fresh process: config.json is read once into memory
Begin(c, first) ==
  /\ pc \in {"idle", "done"}
  /\ run < MaxRuns
  /\ run' = run + 1
  /\ config' = disk
  /\ cmd' = c
  /\ pc' = first
  /\ trace' = <<>>
  /\ exitCode' = "none"
  /\ pre' = [disk |-> disk, dirs |-> dirs, pm2 |-> pm2]

Exit(code) == pc' = "done" /\ exitCode' = code

Log(e) == trace' = Append(trace, e)

Did(e) == \E i \in 1..Len(trace) : trace[i] = e

----------------------------------------------------------------------------
(* deploy *)

\* mutant: the duplicate check never finds the repo
existingProjectNever(c, repo) == FALSE

\* config.projects.find((p) => p.repo === repo), as a truth value
existingProject(c, repo) == findByRepo(c.projects, repo) # 0

\* the prompts of deploy collect owner, repo, project type and port; then
\* missing arguments, a Next.js project without port and a repo that is
\* already tracked end the command
DeployBegin ==
  \E o \in Owners \cup {""}, r \in Repos, t \in ProjectTypes,
     p \in Ports \cup {NoPort} :
    /\ (t = "Next.js" => p # NoPort)
    /\ Begin([NoCmd EXCEPT !.name = "deploy", !.owner = o, !.repo = r,
                           !.type = t, !.port = p], "d_validate")
    /\ UNCHANGED <<disk, dirs, temp, pm2, nginxAvail, nginxEnabled, certs,
                   hooks>>

DeployValidate ==
  /\ pc = "d_validate"
  /\ IF cmd.owner = "" \/ cmd.repo = ""
     THEN Exit("1") /\ Log("missing")
     ELSE IF cmd.type = "Next.js" /\ cmd.port = NoPort
     THEN Exit("1") /\ Log("noport")
     ELSE IF existingProject(config, cmd.repo)
     THEN Exit("1") /\ Log("duplicate")
     ELSE /\ pc' = IF cmd.port # NoPort THEN "d_port" ELSE "d_dir"
          /\ Log("validated")
          /\ UNCHANGED exitCode
  /\ UNCHANGED <<disk, config, dirs, temp, pm2, nginxAvail, nginxEnabled,
                 certs, hooks, run, cmd, pre>>

\* getAvailablePort: one turn of the loop; the bind outcome is the system's
DeployPort ==
  /\ pc = "d_port"
  /\ \E isPortInUse \in BOOLEAN :
       IF isPortInUse
       THEN \E newPort \in Ports :
              /\ cmd' = [cmd EXCEPT !.port = newPort]
              /\ pc' = "d_port"
              /\ UNCHANGED trace
       ELSE /\ pc' = "d_dir"
            /\ Log("port")
            /\ UNCHANGED cmd
  /\ UNCHANGED <<disk, config, dirs, temp, pm2, nginxAvail, nginxEnabled,
                 certs, hooks, run, exitCode, pre>>

\* a directory of that name that is not empty: offer to delete it
DeployDir ==
  /\ pc = "d_dir"
  /\ IF existsSync(dirs, repoPath(cmd.repo))
     THEN IF ~existingProject(config, cmd.repo)
          THEN \E deleteFolder \in BOOLEAN :
                 IF deleteFolder
                 THEN /\ dirs' = [dirs EXCEPT ![repoPath(cmd.repo)] = NoDir]
                      /\ pc' = "d_clone"
                      /\ Log("removed_stale")
                      /\ UNCHANGED exitCode
                 ELSE /\ Exit("1")
                      /\ Log("cancelled")
                      /\ UNCHANGED dirs
          ELSE Exit("1") /\ Log("tracked_dir") /\ UNCHANGED dirs
     ELSE pc' = "d_clone" /\ Log("dir") /\ UNCHANGED <<dirs, exitCode>>
  /\ UNCHANGED <<disk, config, temp, pm2, nginxAvail, nginxEnabled, certs,
                 hooks, run, cmd, pre>>

\* the access token check and git clone; a failed clone throws to the
\* action's catch-all, which prints and lets the process end
DeployClone ==
  /\ pc = "d_clone"
  /\ IF ~config.github
     THEN Exit("1") /\ Log("no_token") /\ UNCHANGED dirs
     ELSE \E ok \in BOOLEAN :
            IF ok
            THEN /\ dirs' = [dirs EXCEPT ![repoPath(cmd.repo)] =
                                [ver |-> run, env |-> 0]]
                 /\ pc' = "d_pid"
                 /\ Log("clone")
                 /\ UNCHANGED exitCode
            ELSE Exit("0") /\ Log("clone_fail") /\ UNCHANGED dirs
  /\ UNCHANGED <<disk, config, temp, pm2, nginxAvail, nginxEnabled, certs,
                 hooks, run, cmd, pre>>

\* the pid kept after one draw and, when that one is taken, a second draw
drawPid(ps, first, second) ==
  IF \E i \in 1..Len(ps) : ps[i].pid = first THEN second ELSE first

\* the outcomes of uuidv4().slice(0, 5) that differ up to renaming: a pid
\* some record has, or the first one that none has
uuidv4(ps) ==
  LET used == {ps[i].pid : i \in 1..Len(ps)}
      free == {i \in 1..Len(PidOrder) : PidOrder[i] \notin used}
  IN used \cup {PidOrder[i] : i \in {j \in free : \A k \in free : j <= k}}

\* pid generation and the optional .env file
DeployPid ==
  /\ pc = "d_pid"
  /\ \E first \in uuidv4(config.projects),
        second \in uuidv4(config.projects), addEnv \in BOOLEAN :
       /\ cmd' = [cmd EXCEPT !.pid = drawPid(config.projects, first, second)]
       /\ dirs' = IF addEnv
                  THEN [dirs EXCEPT ![repoPath(cmd.repo)].env = run]
                  ELSE dirs
  /\ pc' = "d_install"
  /\ Log("pid")
  /\ UNCHANGED <<disk, config, temp, pm2, nginxAvail, nginxEnabled, certs,
                 hooks, run, exitCode, pre>>

\* the npm check and the install command
DeployInstall ==
  /\ pc = "d_install"
  /\ \E outcome \in {"no_npm", "install_fail", "ok"} :
       IF outcome = "ok"
       THEN pc' = "d_build" /\ Log("install") /\ UNCHANGED exitCode
       ELSE Exit("1") /\ Log(outcome)
  /\ UNCHANGED <<disk, config, dirs, temp, pm2, nginxAvail, nginxEnabled,
                 certs, hooks, run, cmd, pre>>

\* mutant: a failed build is printed and deploy carries on
DeployBuildCarriesOn ==
  /\ pc = "d_build"
  /\ \E outcome \in {"build", "build_fail"} : Log(outcome)
  /\ pc' = "d_start"
  /\ UNCHANGED <<disk, config, dirs, temp, pm2, nginxAvail, nginxEnabled,
                 certs, hooks, run, cmd, exitCode, pre>>

\* the build, run when package.json declares a build script; an unreadable
\* package.json is a warning
DeployBuild ==
  /\ pc = "d_build"
  /\ \E outcome \in {"no_package_json", "no_build_script", "build",
                      "build_fail"} :
       IF outcome = "build_fail"
       THEN Exit("1") /\ Log(outcome)
       ELSE pc' = "d_start" /\ Log("build") /\ UNCHANGED exitCode
  /\ UNCHANGED <<disk, config, dirs, temp, pm2, nginxAvail, nginxEnabled,
                 certs, hooks, run, cmd, pre>>

\* the pm2 check and the start command; a failed start throws to the
\* catch-all
DeployStart ==
  /\ pc = "d_start"
  /\ \E outcome \in {"no_pm2", "start_fail", "start"} :
       CASE outcome = "start" ->
              /\ pm2' = [pm2 EXCEPT ![cmd.repo] =
                           [status |-> "online",
                            ver |-> dirs[repoPath(cmd.repo)].ver]]
              /\ pc' = "d_hook"
              /\ Log(outcome)
              /\ UNCHANGED exitCode
         [] outcome = "no_pm2" ->
              Exit("1") /\ Log(outcome) /\ UNCHANGED pm2
         [] OTHER ->
              Exit("0") /\ Log(outcome) /\ UNCHANGED pm2
  /\ UNCHANGED <<disk, config, dirs, temp, nginxAvail, nginxEnabled, certs,
                 hooks, run, cmd, pre>>

\* the value the destructuring `const { key } = answers` binds: the answer
\* stored under that key, undefined (falsy) when the prompt set another key
destructure(answers, key) ==
  IF key \in DOMAIN answers THEN answers[key] ELSE FALSE

\* the relay prompt of setupWebhook stores its answer under the prompt's
\* name, and the code reads confirmWebhookSetup
confirmWebhookSetup(answer) ==
  destructure([setupWebhookServer |-> answer], "confirmWebhookSetup")

\* mutant: a registration that yields no hook id ends deploy
DeployWebhookAborts ==
  /\ pc = "d_hook"
  /\ \E answer \in BOOLEAN, ok \in BOOLEAN :
       IF config.webhook /\ ok
       THEN /\ cmd' = [cmd EXCEPT !.webhookId = run]
            /\ hooks' = hooks \cup {run}
            /\ Log("hook")
            /\ pc' = "d_save"
            /\ UNCHANGED exitCode
       ELSE /\ Exit("1")
            /\ Log(IF config.webhook THEN "hook_fail" ELSE "hook_cancelled")
            /\ UNCHANGED <<cmd, hooks>>
  /\ UNCHANGED <<disk, config, dirs, temp, pm2, nginxAvail, nginxEnabled,
                 certs, run, pre>>

\* setupWebhook: with the relay not configured the user is asked whether to
\* set it up; setupWebhookServer runs when the answer read is true, else the
\* function returns without a value.  Then the POST creates the hook and
\* its id is returned, or null when the request fails.
DeployWebhook ==
  /\ pc = "d_hook"
  /\ \E answer \in BOOLEAN, relay \in BOOLEAN, ok \in BOOLEAN :
       LET asked == ~config.webhook
           said == IF answer THEN "answer_yes" ELSE "answer_no"
           setup == IF asked THEN <<said, "relay_setup">> ELSE <<>>
       IN
       IF asked /\ ~confirmWebhookSetup(answer)
       THEN /\ cmd' = [cmd EXCEPT !.webhookId = HookUndefined]
            /\ trace' = trace \o <<said, "hook_cancelled">>
            /\ pc' = "d_save"
            /\ UNCHANGED <<disk, config, hooks, exitCode>>
       ELSE IF asked /\ ~relay
       THEN /\ Exit("0")
            /\ trace' = trace \o <<said, "relay_fail">>
            /\ UNCHANGED <<disk, config, hooks, cmd>>
       ELSE /\ config' = [config EXCEPT !.webhook = TRUE]
            /\ disk' = IF asked THEN config' ELSE disk
            /\ pc' = "d_save"
            /\ UNCHANGED exitCode
            /\ IF ok
               THEN /\ cmd' = [cmd EXCEPT !.webhookId = run]
                    /\ hooks' = hooks \cup {run}
                    /\ trace' = trace \o setup \o <<"hook">>
               ELSE /\ cmd' = [cmd EXCEPT !.webhookId = HookNull]
                    /\ trace' = trace \o setup \o <<"hook_fail">>
                    /\ UNCHANGED hooks
  /\ UNCHANGED <<dirs, temp, pm2, nginxAvail, nginxEnabled, certs, run, pre>>

\* the project record is pushed and the file written
DeploySave ==
  /\ pc = "d_save"
  /\ updateProjectsConfig(cmd.pid, cmd.owner, cmd.repo, cmd.port,
                          cmd.webhookId, toLowerCase(cmd.type))
  /\ Exit("0")
  /\ Log("save")
  /\ UNCHANGED <<dirs, temp, pm2, nginxAvail, nginxEnabled, certs, hooks,
                 run, cmd, pre>>

Deploy ==
  \/ DeployBegin \/ DeployValidate \/ DeployPort \/ DeployDir
  \/ DeployClone \/ DeployPid \/ DeployInstall \/ DeployBuild
  \/ DeployStart \/ DeployWebhook \/ DeploySave

\* init: the GitHub credentials are saved
InitCommand ==
  /\ Begin([NoCmd EXCEPT !.name = "init"], "i_save")
  /\ UNCHANGED <<disk, dirs, temp, pm2, nginxAvail, nginxEnabled, certs,
                 hooks>>

InitSave ==
  /\ pc = "i_save"
  /\ config' = [config EXCEPT !.github = TRUE]
  /\ saveConfig(config')
  /\ Exit("0")
  /\ Log("save")
  /\ UNCHANGED <<dirs, temp, pm2, nginxAvail, nginxEnabled, certs, hooks,
                 run, cmd, pre>>

----------------------------------------------------------------------------
(* updateProject *)

\* the locals of a command that works on the record at index i
OnProject(name, ps, i, promptEnv, byPid) ==
  [NoCmd EXCEPT !.name = name, !.owner = ps[i].owner, !.repo = ps[i].repo,
                !.type = ps[i].type, !.port = ps[i].port, !.pid = ps[i].pid,
                !.webhookId = ps[i].webhookId, !.promptEnv = promptEnv,
                !.byPid = byPid, !.idx = i]

\* `update <pid>`: the record is looked up by pid; an unknown pid exits 1
UpdateCommand ==
  \E pid \in Pids :
    LET i == findByPid(disk.projects, pid) IN
    /\ IF i = 0
       THEN Begin([NoCmd EXCEPT !.name = "update", !.pid = pid,
                                !.byPid = TRUE], "u_notfound")
       ELSE Begin(OnProject("update", disk.projects, i, FALSE, TRUE),
                  "u_validate")
    /\ UNCHANGED <<disk, dirs, temp, pm2, nginxAvail, nginxEnabled, certs,
                   hooks>>

\* mutant: an unknown pid is reported and the command ends normally
UpdateNotFoundExitsZero ==
  /\ pc = "u_notfound"
  /\ Exit("0")
  /\ Log("notfound")
  /\ UNCHANGED <<disk, config, dirs, temp, pm2, nginxAvail, nginxEnabled,
                 certs, hooks, run, cmd, pre>>

UpdateNotFound ==
  /\ pc = "u_notfound"
  /\ Exit("1")
  /\ Log("notfound")
  /\ UNCHANGED <<disk, config, dirs, temp, pm2, nginxAvail, nginxEnabled,
                 certs, hooks, run, cmd, pre>>

\* the record must have owner and repo, and a Next.js record a port
UpdateValidate ==
  /\ pc = "u_validate"
  /\ IF cmd.owner = "" \/ cmd.repo = ""
        \/ (cmd.type = "next.js" /\ cmd.port = NoPort)
     THEN Exit("1") /\ Log("invalid")
     ELSE pc' = "u_clone" /\ Log("validated") /\ UNCHANGED exitCode
  /\ UNCHANGED <<disk, config, dirs, temp, pm2, nginxAvail, nginxEnabled,
                 certs, hooks, run, cmd, pre>>

\* a left-over temp directory is removed (a failure is only printed), then
\* the repository is cloned into the temp directory, which must be empty
UpdateClone ==
  /\ pc = "u_clone"
  /\ \E removed \in BOOLEAN, cloned \in BOOLEAN :
       LET left == IF removed THEN NoDir ELSE temp[cmd.repo] IN
       IF left = NoDir /\ cloned
       THEN /\ temp' = [temp EXCEPT ![cmd.repo] = [ver |-> run, env |-> 0]]
            /\ pc' = "u_env"
            /\ Log("clone")
            /\ UNCHANGED exitCode
       ELSE /\ temp' = [temp EXCEPT ![cmd.repo] = left]
            /\ Exit("1")
            /\ Log("clone_fail")
  /\ UNCHANGED <<disk, config, dirs, pm2, nginxAvail, nginxEnabled, certs,
                 hooks, run, cmd, pre>>

\* mutant: the .env of the live directory is not copied
UpdateEnvDropped ==
  /\ pc = "u_env"
  /\ IF cmd.promptEnv
     THEN \E answer \in BOOLEAN :
            /\ temp' = [temp EXCEPT ![cmd.repo].env =
                         IF answer THEN run ELSE 0]
            /\ Log(IF answer THEN "env_edit" ELSE "env")
     ELSE UNCHANGED temp /\ Log("env")
  /\ pc' = "u_install"
  /\ UNCHANGED <<disk, config, dirs, pm2, nginxAvail, nginxEnabled, certs,
                 hooks, run, cmd, exitCode, pre>>

\* the .env of the live directory is copied into the temp directory; with
\* prompts the user may edit it in nano, or create one when there is none
UpdateEnv ==
  /\ pc = "u_env"
  /\ LET liveEnv == dirs[repoPath(cmd.repo)].env IN
     IF cmd.promptEnv
     THEN \E answer \in BOOLEAN :
            /\ temp' = [temp EXCEPT ![cmd.repo].env =
                         IF answer THEN run ELSE liveEnv]
            /\ Log(IF answer THEN "env_edit" ELSE "env")
     ELSE /\ temp' = [temp EXCEPT ![cmd.repo].env = liveEnv]
          /\ Log("env")
  /\ pc' = "u_install"
  /\ UNCHANGED <<disk, config, dirs, pm2, nginxAvail, nginxEnabled, certs,
                 hooks, run, cmd, exitCode, pre>>

\* mutant: a failed install is printed and the update carries on
UpdateInstallCarriesOn ==
  /\ pc = "u_install"
  /\ \E outcome \in {"install", "install_fail"} : Log(outcome)
  /\ pc' = "u_build"
  /\ UNCHANGED <<disk, config, dirs, temp, pm2, nginxAvail, nginxEnabled,
                 certs, hooks, run, cmd, exitCode, pre>>

UpdateInstall ==
  /\ pc = "u_install"
  /\ \E ok \in BOOLEAN :
       IF ok
       THEN pc' = "u_build" /\ Log("install") /\ UNCHANGED exitCode
       ELSE Exit("1") /\ Log("install_fail")
  /\ UNCHANGED <<disk, config, dirs, temp, pm2, nginxAvail, nginxEnabled,
                 certs, hooks, run, cmd, pre>>

\* mutant: the .next directory is not looked for
buildSuccessfulUnchecked(type, outcome) ==
  outcome \in {"no_build_script", "built", "built_without_next"}

\* whether the build step of updateProject ends with buildSuccessful
buildSuccessful(type, outcome) ==
  CASE outcome = "no_package_json" -> FALSE
    [] outcome = "no_build_script" -> TRUE
    [] outcome = "build_error" -> FALSE
    [] outcome = "built" -> type \in {"next.js", "node.js"}
    [] outcome = "built_without_next" -> type = "node.js"
    [] OTHER -> FALSE

\* mutant: a failed build is printed and the update carries on
UpdateBuildCarriesOn ==
  /\ pc = "u_build"
  /\ \E outcome \in {"no_package_json", "no_build_script", "build_error",
                      "built", "built_without_next"} :
       trace' = trace \o <<outcome, IF buildSuccessful(cmd.type, outcome)
                                    THEN "build" ELSE "build_fail">>
  /\ pc' = "u_stop"
  /\ UNCHANGED <<disk, config, dirs, temp, pm2, nginxAvail, nginxEnabled,
                 certs, hooks, run, cmd, exitCode, pre>>

UpdateBuild ==
  /\ pc = "u_build"
  /\ \E outcome \in {"no_package_json", "no_build_script", "build_error",
                      "built", "built_without_next"} :
       IF buildSuccessful(cmd.type, outcome)
       THEN /\ pc' = "u_stop"
            /\ trace' = trace \o <<outcome, "build">>
            /\ UNCHANGED exitCode
       ELSE /\ Exit("1")
            /\ trace' = trace \o <<outcome, "build_fail">>
  /\ UNCHANGED <<disk, config, dirs, temp, pm2, nginxAvail, nginxEnabled,
                 certs, hooks, run, cmd, pre>>

\* pm2 stop; an error is ignored
UpdateStop ==
  /\ pc = "u_stop"
  /\ \E ok \in BOOLEAN :
       pm2' = IF ok /\ pm2[cmd.repo] # NoProc
              THEN [pm2 EXCEPT ![cmd.repo].status = "stopped"]
              ELSE pm2
  /\ pc' = "u_backup"
  /\ Log("stop")
  /\ UNCHANGED <<disk, config, dirs, temp, nginxAvail, nginxEnabled, certs,
                 hooks, run, cmd, exitCode, pre>>

\* fs.renameSync of a directory: the target must not be a non-empty directory
renameSync(d, from, to) ==
  [d EXCEPT ![to] = d[from], ![from] = NoDir]

\* the live directory is renamed to <repo>_backup, an older backup removed
UpdateBackup ==
  /\ pc = "u_backup"
  /\ IF existsSync(dirs, repoPath(cmd.repo))
     THEN \E outcome \in {"backup", "backup_fail"} :
            IF outcome = "backup"
            THEN /\ dirs' = renameSync(
                      [dirs EXCEPT ![backupPath(cmd.repo)] = NoDir],
                      repoPath(cmd.repo), backupPath(cmd.repo))
                 /\ pc' = "u_promote"
                 /\ Log(outcome)
                 /\ UNCHANGED exitCode
            ELSE Exit("1") /\ Log(outcome) /\ UNCHANGED dirs
     ELSE /\ pc' = "u_promote"
          /\ Log("no_backup")
          /\ UNCHANGED <<dirs, exitCode>>
  /\ UNCHANGED <<disk, config, temp, pm2, nginxAvail, nginxEnabled, certs,
                 hooks, run, cmd, pre>>

\* the temp directory is renamed to the live path
UpdatePromote ==
  /\ pc = "u_promote"
  /\ \E ok \in BOOLEAN :
       IF ok /\ ~existsSync(dirs, repoPath(cmd.repo))
       THEN /\ dirs' = [dirs EXCEPT ![repoPath(cmd.repo)] = temp[cmd.repo]]
            /\ temp' = [temp EXCEPT ![cmd.repo] = NoDir]
            /\ pc' = "u_delete"
            /\ Log("promote")
            /\ UNCHANGED exitCode
       ELSE Exit("1") /\ Log("promote_fail") /\ UNCHANGED <<dirs, temp>>
  /\ UNCHANGED <<disk, config, pm2, nginxAvail, nginxEnabled, certs, hooks,
                 run, cmd, pre>>

\* pm2 delete; an error is ignored
UpdateDelete ==
  /\ pc = "u_delete"
  /\ \E ok \in BOOLEAN :
       pm2' = IF ok THEN [pm2 EXCEPT ![cmd.repo] = NoProc] ELSE pm2
  /\ pc' = "u_start"
  /\ Log("delete")
  /\ UNCHANGED <<disk, config, dirs, temp, nginxAvail, nginxEnabled, certs,
                 hooks, run, cmd, exitCode, pre>>

\* the rollback of a failed start: live -> <repo>_failed, then
\* <repo>_backup -> live; either rename throws when it cannot be done
rollback(d, repo) ==
  IF existsSync(d, failedPath(repo))
  THEN d
  ELSE LET moved == renameSync(d, repoPath(repo), failedPath(repo)) IN
       IF existsSync(moved, backupPath(repo))
       THEN renameSync(moved, backupPath(repo), repoPath(repo))
       ELSE moved

\* the start command in the live directory; on failure the rollback
UpdateStart ==
  /\ pc = "u_start"
  /\ \E ok \in BOOLEAN :
       IF ok
       THEN /\ pm2' = [pm2 EXCEPT ![cmd.repo] =
                         [status |-> "online",
                          ver |-> dirs[repoPath(cmd.repo)].ver]]
            /\ pc' = "u_save"
            /\ Log("start")
            /\ UNCHANGED <<dirs, exitCode>>
       ELSE /\ dirs' = rollback(dirs, cmd.repo)
            /\ Exit("1")
            /\ Log("start_fail")
            /\ UNCHANGED pm2
  /\ UNCHANGED <<disk, config, temp, nginxAvail, nginxEnabled, certs, hooks,
                 run, cmd, pre>>

\* project.last_updated is set on the record in memory and the file written
UpdateSave ==
  /\ pc = "u_save"
  /\ config' = [config EXCEPT !.projects[cmd.idx].last_updated = run]
  /\ saveConfig(config')
  /\ Exit("0")
  /\ Log("save")
  /\ UNCHANGED <<dirs, temp, pm2, nginxAvail, nginxEnabled, certs, hooks,
                 run, cmd, pre>>

updateProject ==
  \/ UpdateValidate \/ UpdateClone \/ UpdateEnv \/ UpdateInstall
  \/ UpdateBuild \/ UpdateStop \/ UpdateBackup \/ UpdatePromote
  \/ UpdateDelete \/ UpdateStart \/ UpdateSave

----------------------------------------------------------------------------
(* manage *)

\* manage: a project and an action are selected; without projects it returns
ManageCommand ==
  IF Len(disk.projects) = 0
  THEN /\ Begin([NoCmd EXCEPT !.name = "manage"], "m_empty")
       /\ UNCHANGED <<disk, dirs, temp, pm2, nginxAvail, nginxEnabled,
                      certs, hooks>>
  ELSE \E s \in 1..Len(disk.projects),
          action \in {"start", "stop", "restart", "update", "delete"} :
         LET i == findByRepo(disk.projects, disk.projects[s].repo) IN
         /\ Begin(OnProject(action, disk.projects, i, TRUE, FALSE),
                  CASE action = "update" -> "u_validate"
                    [] action = "delete" -> "x_confirm"
                    [] OTHER -> "m_pm2")
         /\ UNCHANGED <<disk, dirs, temp, pm2, nginxAvail, nginxEnabled,
                        certs, hooks>>

ManageEmpty ==
  /\ pc = "m_empty"
  /\ Exit("0")
  /\ Log("empty")
  /\ UNCHANGED <<disk, config, dirs, temp, pm2, nginxAvail, nginxEnabled,
                 certs, hooks, run, cmd, pre>>

\* start, stop, restart: the pm2 command of that name; a failure is printed
ManagePm2 ==
  /\ pc = "m_pm2"
  /\ \E ok \in BOOLEAN :
       pm2' = IF ok /\ pm2[cmd.repo] # NoProc
              THEN [pm2 EXCEPT ![cmd.repo].status =
                      IF cmd.name = "stop" THEN "stopped" ELSE "online"]
              ELSE pm2
  /\ Exit("0")
  /\ Log(cmd.name)
  /\ UNCHANGED <<disk, config, dirs, temp, nginxAvail, nginxEnabled, certs,
                 hooks, run, cmd, pre>>

----------------------------------------------------------------------------
(* manage: delete *)

DeleteConfirm ==
  /\ pc = "x_confirm"
  /\ \E confirmDelete \in BOOLEAN :
       IF confirmDelete
       THEN pc' = "x_pm2" /\ Log("confirmed") /\ UNCHANGED exitCode
       ELSE Exit("0") /\ Log("cancelled")
  /\ UNCHANGED <<disk, config, dirs, temp, pm2, nginxAvail, nginxEnabled,
                 certs, hooks, run, cmd, pre>>

\* pm2 stop, then pm2 del; the first to fail is caught and printed
DeletePm2 ==
  /\ pc = "x_pm2"
  /\ IF pm2[cmd.repo] = NoProc
     THEN Log("pm2_fail") /\ UNCHANGED pm2
     ELSE \E outcome \in {"pm2", "pm2_stop_fail", "pm2_del_fail"} :
            /\ pm2' = CASE outcome = "pm2" ->
                             [pm2 EXCEPT ![cmd.repo] = NoProc]
                        [] outcome = "pm2_del_fail" ->
                             [pm2 EXCEPT ![cmd.repo].status = "stopped"]
                        [] OTHER -> pm2
            /\ Log(outcome)
  /\ pc' = "x_rm"
  /\ UNCHANGED <<disk, config, dirs, temp, nginxAvail, nginxEnabled, certs,
                 hooks, run, cmd, exitCode, pre>>

\* mutant: the project is filtered out and its domain records are kept
withoutProjectKeepsDomains(c, repo, pid) ==
  [c EXCEPT !.projects = SelectSeq(@, LAMBDA p : p.repo # repo)]

\* the records left in memory once the project and its domains are filtered
withoutProject(c, repo, pid) ==
  [c EXCEPT !.projects = SelectSeq(@, LAMBDA p : p.repo # repo),
            !.domains = SelectSeq(@, LAMBDA d : d.pid # pid)]

\* rm -rf of the project directory, then the records are filtered in memory;
\* a failing rm throws to the catch of the delete branch
DeleteDir ==
  /\ pc = "x_rm"
  /\ \E ok \in BOOLEAN :
       IF ok
       THEN /\ dirs' = [dirs EXCEPT ![repoPath(cmd.repo)] = NoDir]
            /\ config' = withoutProject(config, cmd.repo, cmd.pid)
            /\ pc' = "x_nginx"
            /\ Log("rm")
            /\ UNCHANGED exitCode
       ELSE Exit("0") /\ Log("rm_fail") /\ UNCHANGED <<dirs, config>>
  /\ UNCHANGED <<disk, temp, pm2, nginxAvail, nginxEnabled, certs, hooks,
                 run, cmd, pre>>

\* the name of the proxy files that delete removes
deletedVhost(repo) == repo

\* the proxy file and symlink named after the project are removed when
\* present, and nginx restarted; a failing restart throws
DeleteNginx ==
  /\ pc = "x_nginx"
  /\ nginxAvail' = [nginxAvail EXCEPT ![deletedVhost(cmd.repo)] = NoFile]
  /\ nginxEnabled' = nginxEnabled \ {deletedVhost(cmd.repo)}
  /\ \E ok \in BOOLEAN :
       IF ok
       THEN pc' = "x_hook" /\ Log("nginx") /\ UNCHANGED exitCode
       ELSE Exit("0") /\ Log("nginx_fail")
  /\ UNCHANGED <<disk, config, dirs, temp, pm2, certs, hooks, run, cmd, pre>>

\* removeWebhook, called when the record has a webhook id; a failure is
\* printed
DeleteWebhook ==
  /\ pc = "x_hook"
  /\ IF cmd.webhookId \notin {HookNull, HookUndefined}
     THEN \E ok \in BOOLEAN :
            IF ok
            THEN hooks' = hooks \ {cmd.webhookId} /\ Log("hook")
            ELSE Log("hook_fail") /\ UNCHANGED hooks
     ELSE Log("no_hook") /\ UNCHANGED hooks
  /\ pc' = "x_save"
  /\ UNCHANGED <<disk, config, dirs, temp, pm2, nginxAvail, nginxEnabled,
                 certs, run, cmd, exitCode, pre>>

DeleteSave ==
  /\ pc = "x_save"
  /\ saveConfig(config)
  /\ Exit("0")
  /\ Log("save")
  /\ UNCHANGED <<config, dirs, temp, pm2, nginxAvail, nginxEnabled, certs,
                 hooks, run, cmd, pre>>

Delete ==
  \/ DeleteConfirm \/ DeletePm2 \/ DeleteDir \/ DeleteNginx
  \/ DeleteWebhook \/ DeleteSave

----------------------------------------------------------------------------
(* domains *)

\* mutant: no record is ever found for the domain
hasDomainNever(c, domain) == FALSE

\* (config.domains || []).some((d) => d.domain === domain)
hasDomain(c, domain) ==
  \E i \in 1..Len(c.domains) : c.domains[i].domain = domain

\* removeDomain under one outcome of its external commands: the proxy files
\* go when the config file exists, then nginx restarts, certbot deletes the
\* certificate, the record is filtered out and the file written
removeDomain(c, avail, enabled, ce, domain, outcome) ==
  LET hasFile == avail[domain] # NoFile
      restartThrows == hasFile /\ outcome = "restart_fail"
      certbotThrows == outcome = "certbot_fail" \/ domain \notin ce
      threw == restartThrows \/ certbotThrows
  IN [threw |-> threw,
      avail |-> IF hasFile THEN [avail EXCEPT ![domain] = NoFile]
                ELSE avail,
      enabled |-> IF hasFile THEN enabled \ {domain} ELSE enabled,
      certs |-> IF threw THEN ce ELSE ce \ {domain},
      config |-> IF threw THEN c
                 ELSE [c EXCEPT !.domains =
                         SelectSeq(@, LAMBDA d : d.domain # domain)]]

\* setupDomain's clean-up of proxy files without a record: the symlink is
\* unlinked first, and a failure there leaves the config file in place
unlinkStale(avail, enabled, domain) ==
  [avail |-> IF domain \in enabled THEN [avail EXCEPT ![domain] = NoFile]
             ELSE avail,
   enabled |-> enabled \ {domain}]

\* domains: without projects it returns; else add or remove is chosen
DomainsCommand ==
  IF Len(disk.projects) = 0
  THEN /\ Begin([NoCmd EXCEPT !.name = "domains"], "m_empty")
       /\ UNCHANGED <<disk, dirs, temp, pm2, nginxAvail, nginxEnabled,
                      certs, hooks>>
  ELSE \E s \in 1..Len(disk.projects), action \in {"add", "remove"} :
         LET i == findByRepo(disk.projects, disk.projects[s].repo) IN
         /\ Begin(OnProject(action, disk.projects, i, FALSE, FALSE),
                  IF action = "add" THEN "a_setup" ELSE "r_remove")
         /\ UNCHANGED <<disk, dirs, temp, pm2, nginxAvail, nginxEnabled,
                        certs, hooks>>

\* Add Domain: setupDomain(domain, port), then the record is pushed and the
\* file written
DomainAdd ==
  /\ pc = "a_setup"
  /\ \E domain \in Domains, overwrite \in BOOLEAN,
        removal \in {"ok", "restart_fail", "certbot_fail"},
        outcome \in {"ok", "nginx_fail", "certbot_fail"} :
       LET exists == hasDomain(config, domain)
           rm == removeDomain(config, nginxAvail, nginxEnabled, certs,
                              domain, removal)
           stale == unlinkStale(nginxAvail, nginxEnabled, domain)
           stopped == exists /\ (~overwrite \/ rm.threw)
           c1 == IF exists THEN rm.config ELSE config
           c2 == [c1 EXCEPT !.email = TRUE]
           avail1 == IF exists THEN rm.avail ELSE stale.avail
           enabled1 == IF exists THEN rm.enabled ELSE stale.enabled
           certs1 == IF exists THEN rm.certs ELSE certs \ {domain}
       IN
       IF exists /\ ~overwrite
       THEN /\ Exit("0") /\ Log("declined")
            /\ UNCHANGED <<disk, config, nginxAvail, nginxEnabled, certs>>
       ELSE IF stopped
       THEN /\ Exit("0") /\ Log("remove_fail")
            /\ nginxAvail' = rm.avail
            /\ nginxEnabled' = rm.enabled
            /\ UNCHANGED <<disk, config, certs>>
       ELSE /\ nginxAvail' = [avail1 EXCEPT ![domain] = cmd.port]
            /\ nginxEnabled' = enabled1 \cup {domain}
            /\ CASE outcome = "nginx_fail" ->
                      /\ Exit("0") /\ Log(outcome)
                      /\ config' = c1
                      /\ disk' = IF exists THEN c1 ELSE disk
                      /\ certs' = certs1
                 [] outcome = "certbot_fail" ->
                      /\ Exit("1") /\ Log(outcome)
                      /\ config' = c2
                      /\ disk' = IF exists \/ ~c1.email THEN c2 ELSE disk
                      /\ certs' = certs1
                 [] OTHER ->
                      /\ Exit("0") /\ Log("added")
                      /\ config' = [c2 EXCEPT !.domains = Append(@,
                                      [pid |-> cmd.pid, domain |-> domain])]
                      /\ saveConfig(config')
                      /\ certs' = certs1 \cup {domain}
  /\ UNCHANGED <<dirs, temp, pm2, hooks, run, cmd, pre>>

\* Remove Domain: one of the selected project's domains is removed
DomainRemove ==
  /\ pc = "r_remove"
  /\ LET own == {i \in 1..Len(config.domains) :
                   config.domains[i].pid = cmd.pid} IN
     IF own = {}
     THEN /\ Exit("0") /\ Log("no_domains")
          /\ UNCHANGED <<disk, config, nginxAvail, nginxEnabled, certs>>
     ELSE \E i \in own,
             outcome \in {"ok", "restart_fail", "certbot_fail"} :
            LET rm == removeDomain(config, nginxAvail, nginxEnabled, certs,
                                   config.domains[i].domain, outcome) IN
            /\ nginxAvail' = rm.avail
            /\ nginxEnabled' = rm.enabled
            /\ certs' = rm.certs
            /\ config' = rm.config
            /\ disk' = IF rm.threw THEN disk ELSE rm.config
            /\ Exit("0")
            /\ Log(IF rm.threw THEN "remove_fail" ELSE "removed")
  /\ UNCHANGED <<dirs, temp, pm2, hooks, run, cmd, pre>>

----------------------------------------------------------------------------
(* webhooks *)

\* the relay server is set up and its details are saved in the config
WebhooksCommand ==
  /\ Begin([NoCmd EXCEPT !.name = "webhooks"], "w_setup")
  /\ UNCHANGED <<disk, dirs, temp, pm2, nginxAvail, nginxEnabled, certs,
                 hooks>>

WebhooksSetup ==
  /\ pc = "w_setup"
  /\ \E ok \in BOOLEAN :
       IF ok
       THEN /\ config' = [config EXCEPT !.webhook = TRUE]
            /\ saveConfig(config')
            /\ Log("setup")
       ELSE Log("setup_fail") /\ UNCHANGED <<disk, config>>
  /\ Exit("0")
  /\ UNCHANGED <<dirs, temp, pm2, nginxAvail, nginxEnabled, certs, hooks,
                 run, cmd, pre>>

Next ==
  \/ InitCommand \/ InitSave
  \/ Deploy
  \/ UpdateCommand \/ UpdateNotFound \/ updateProject
  \/ ManageCommand \/ ManageEmpty \/ ManagePm2
  \/ Delete
  \/ DomainsCommand \/ DomainAdd \/ DomainRemove
  \/ WebhooksCommand \/ WebhooksSetup

Spec == Init /\ [][Next]_vars

----------------------------------------------------------------------------
(* Two invocations at once.  Each is a process of its own with its own      *)
(* config object, so here config, pc, cmd and pre hold one value per        *)
(* invocation; trace lists the invocations in the order of their saves.     *)

Procs == {1, 2}

\* the server after `init`, and after `init` and a first deploy
RaceInit ==
  /\ \E deployed \in BOOLEAN :
       disk = IF deployed
              THEN updatedProjects([emptyConfig EXCEPT !.github = TRUE],
                                   PidOrder[1], "acme", "app",
                                   CHOOSE p \in Ports : TRUE, HookUndefined,
                                   toLowerCase("Next.js"), 0)
              ELSE [emptyConfig EXCEPT !.github = TRUE]
  /\ config = [p \in Procs |-> disk]
  /\ pre = [p \in Procs |-> disk]
  /\ pc = [p \in Procs |-> "idle"]
  /\ cmd = [p \in Procs |-> NoCmd]
  /\ dirs = [n \in DirNames |-> NoDir]
  /\ pm2 = [r \in Repos |-> NoProc]
  /\ temp = [r \in Repos |-> NoDir]
  /\ nginxAvail = [n \in Names |-> NoFile]
  /\ nginxEnabled = {}
  /\ certs = {}
  /\ hooks = {}
  /\ run = 0
  /\ trace = <<>>
  /\ exitCode = "none"

\* a process starts: config.json is read once into its memory
RaceBegin(p, c, first) ==
  /\ pc[p] \in {"idle", "done", "rejected"}
  /\ run < MaxRuns
  /\ run' = run + 1
  /\ config' = [config EXCEPT ![p] = disk]
  /\ pre' = [pre EXCEPT ![p] = disk]
  /\ cmd' = [cmd EXCEPT ![p] = c]
  /\ pc' = [pc EXCEPT ![p] = first]
  /\ UNCHANGED <<disk, dirs, temp, pm2, nginxAvail, nginxEnabled, certs,
                 hooks, trace, exitCode>>

RaceDeployCommand(p) ==
  \E r \in Repos, t \in ProjectTypes :
    RaceBegin(p, [NoCmd EXCEPT !.name = "deploy", !.owner = "acme",
                               !.repo = r, !.type = t,
                               !.port = CHOOSE n \in Ports : TRUE],
              "d_validate")

RaceUpdateCommand(p) ==
  \E pid \in Pids :
    LET i == findByPid(disk.projects, pid) IN
    /\ i # 0
    /\ RaceBegin(p, OnProject("update", disk.projects, i, FALSE, TRUE),
                 "u_save")

\* deploy's duplicate check, on the records this process loaded
RaceDeployValidate(p) ==
  /\ pc[p] = "d_validate"
  /\ pc' = [pc EXCEPT ![p] = IF existingProject(config[p], cmd[p].repo)
                             THEN "rejected" ELSE "d_save"]
  /\ UNCHANGED <<disk, config, dirs, temp, pm2, nginxAvail, nginxEnabled,
                 certs, hooks, run, cmd, trace, exitCode, pre>>

\* the end of deploy: updateProjectsConfig on this process's config object
RaceDeploySave(p) ==
  /\ pc[p] = "d_save"
  /\ \E first \in uuidv4(config[p].projects),
        second \in uuidv4(config[p].projects) :
       /\ cmd' = [cmd EXCEPT ![p].pid =
                    drawPid(config[p].projects, first, second)]
       /\ config' = [config EXCEPT ![p] =
            updatedProjects(config[p], cmd'[p].pid, cmd[p].owner,
                            cmd[p].repo, cmd[p].port, cmd[p].webhookId,
                            toLowerCase(cmd[p].type), run)]
  /\ saveConfig(config'[p])
  /\ pc' = [pc EXCEPT ![p] = "done"]
  /\ trace' = Append(trace, p)
  /\ UNCHANGED <<dirs, temp, pm2, nginxAvail, nginxEnabled, certs, hooks,
                 run, exitCode, pre>>

\* mutant: the file is read again just before the timestamp is set
RaceUpdateSaveReloads(p) ==
  /\ pc[p] = "u_save"
  /\ LET i == findByRepo(disk.projects, cmd[p].repo) IN
     config' = [config EXCEPT ![p] =
                  IF i = 0 THEN disk
                  ELSE [disk EXCEPT !.projects[i].last_updated = run]]
  /\ saveConfig(config'[p])
  /\ pc' = [pc EXCEPT ![p] = "done"]
  /\ trace' = Append(trace, p)
  /\ UNCHANGED <<dirs, temp, pm2, nginxAvail, nginxEnabled, certs, hooks,
                 run, cmd, exitCode, pre>>

\* the end of updateProject: the timestamp is set on the record of this
\* process's config object and the whole object written
RaceUpdateSave(p) ==
  /\ pc[p] = "u_save"
  /\ config' = [config EXCEPT ![p].projects[cmd[p].idx].last_updated = run]
  /\ saveConfig(config'[p])
  /\ pc' = [pc EXCEPT ![p] = "done"]
  /\ trace' = Append(trace, p)
  /\ UNCHANGED <<dirs, temp, pm2, nginxAvail, nginxEnabled, certs, hooks,
                 run, cmd, exitCode, pre>>

RaceNext ==
  \E p \in Procs :
    \/ RaceDeployCommand(p) \/ RaceUpdateCommand(p)
    \/ RaceDeployValidate(p) \/ RaceDeploySave(p) \/ RaceUpdateSave(p)

SpecRace == RaceInit /\ [][RaceNext]_vars

----------------------------------------------------------------------------
(* removeDomain on its own, from every state of the proxy directories, the  *)
(* certificates and the domain records                                      *)

RemoveDomainInit ==
  /\ \E recorded \in SUBSET Domains :
       disk = [updatedProjects([emptyConfig EXCEPT !.github = TRUE],
                               PidOrder[1], "acme", "app",
                               CHOOSE p \in Ports : TRUE, HookUndefined,
                               toLowerCase("Next.js"), 0)
               EXCEPT !.domains =
                 IF recorded = {} THEN <<>>
                 ELSE <<[pid |-> PidOrder[1],
                         domain |-> CHOOSE d \in recorded : TRUE]>>]
  /\ config = disk
  /\ nginxAvail \in [Names -> {NoFile} \cup Ports]
  /\ nginxEnabled \in SUBSET Names
  /\ certs \in SUBSET Names
  /\ dirs = [n \in DirNames |-> NoDir]
  /\ pm2 = [r \in Repos |-> NoProc]
  /\ temp = [r \in Repos |-> NoDir]
  /\ hooks = {}
  /\ run = 0
  /\ pc = "idle"
  /\ cmd = [NoCmd EXCEPT !.name = "removeDomain"]
  /\ trace = <<>>
  /\ exitCode = "none"
  /\ pre = [disk |-> disk, dirs |-> dirs, pm2 |-> pm2]

\* one call of removeDomain(domain); trace keeps the domain and whether the
\* call completed or threw
RemoveDomainCall ==
  /\ pc = "idle"
  /\ \E domain \in Domains,
        outcome \in {"ok", "restart_fail", "certbot_fail"} :
       LET rm == removeDomain(config, nginxAvail, nginxEnabled, certs,
                              domain, outcome) IN
       /\ nginxAvail' = rm.avail
       /\ nginxEnabled' = rm.enabled
       /\ certs' = rm.certs
       /\ config' = rm.config
       /\ disk' = IF rm.threw THEN disk ELSE rm.config
       /\ trace' = <<domain, IF rm.threw THEN "threw" ELSE "completed">>
  /\ pc' = "done"
  /\ UNCHANGED <<dirs, temp, pm2, hooks, run, cmd, exitCode, pre>>

SpecRemoveDomain == RemoveDomainInit /\ [][RemoveDomainCall]_vars

----------------------------------------------------------------------------
(* deploy's port: the --port option and the prompt answers are text, the    *)
(* re-prompt of getAvailablePort yields a number.  Here cmd holds deploy's  *)
(* locals with the port as a JavaScript value, and disk.projects the record *)
(* as JSON keeps it.                                                        *)

MaxProbes == 2
MaxPort == 65535
NaN == 0 - 1

\* texts a user can type, as sequences of characters
PortTexts ==
  { <<"0">>, <<"3", "0", "0", "0">>, <<"7", "0", "0", "0", "0">>,
    <<"3", "0", "0", "0", "a">>, <<"a">> }

Undefined == [kind |-> "undefined", text |-> <<>>, num |-> 0]
Str(t) == [kind |-> "string", text |-> t, num |-> 0]
Num(n) == [kind |-> "number", text |-> <<>>, num |-> n]

Digits == <<"0", "1", "2", "3", "4", "5", "6", "7", "8", "9">>

isDigit(c) == \E d \in 1..Len(Digits) : Digits[d] = c

digitValue(c) == (CHOOSE d \in 1..Len(Digits) : Digits[d] = c) - 1

RECURSIVE decimal(_)
decimal(t) ==
  IF t = <<>> THEN 0
  ELSE 10 * decimal(SubSeq(t, 1, Len(t) - 1)) + digitValue(t[Len(t)])

\* the longest prefix of t made of digits
digitPrefix(t) ==
  LET n == CHOOSE k \in 0..Len(t) :
             /\ \A j \in 1..k : isDigit(t[j])
             /\ k < Len(t) => ~isDigit(t[k + 1])
  IN SubSeq(t, 1, n)

\* Number.parseInt(text, 10): the leading digits, NaN without any
parseInt(t) == IF digitPrefix(t) = <<>> THEN NaN ELSE decimal(digitPrefix(t))

\* Number(text): the whole text must be digits; the empty text is 0
Number(t) == IF digitPrefix(t) = t THEN decimal(t) ELSE NaN

\* truthiness of a value: a text that is not empty, a number that is not 0
truthy(v) ==
  CASE v.kind = "string" -> v.text # <<>>
    [] v.kind = "number" -> v.num # 0 /\ v.num # NaN
    [] OTHER -> FALSE

\* the validate function of deploy's port prompt
validatePrompt(t) ==
  ~(parseInt(t) = NaN \/ parseInt(t) <= 0 \/ parseInt(t) > MaxPort)

\* the validate function of getAvailablePort's prompt
validateReprompt(t) ==
  parseInt(t) # NaN /\ parseInt(t) > 0 /\ parseInt(t) <= MaxPort

\* server.listen(port): a text that is no number names a pipe, a number
\* outside 0..65535 throws, any other is the TCP port to bind
listenTarget(v) ==
  LET n == IF v.kind = "number" THEN v.num ELSE Number(v.text) IN
  IF v.kind = "string" /\ n = NaN THEN "pipe"
  ELSE IF n = NaN \/ n < 0 \/ n > MaxPort THEN "throws"
  ELSE "port"

BindOutcomes == {"listening", "EADDRINUSE", "EACCES", "EADDRNOTAVAIL"}

Pending == [state |-> "pending", value |-> FALSE, calls |-> 0]

\* resolve(value) on a promise: the first call settles it
resolve(promise, value) ==
  IF promise.state = "pending"
  THEN [state |-> "resolved", value |-> value, calls |-> promise.calls + 1]
  ELSE [promise EXCEPT !.calls = @ + 1]

\* mutant: every bind error counts as a port in use
isPortInUseAnyError(outcome) == resolve(Pending, outcome # "listening")

\* isPortInUse: the promise after the one event the listener emits, the
\* error handler resolving err.code === "EADDRINUSE" and the listening
\* handler resolving false
isPortInUse(outcome) ==
  IF outcome = "listening"
  THEN resolve(Pending, FALSE)
  ELSE resolve(Pending, outcome = "EADDRINUSE")

\* the start command of deploy: the script pm2 runs and the --port argument
deployStartCommand(type, port) ==
  IF toLowerCase(type) = "next.js"
  THEN [script |-> "npm start", port |-> port]
  ELSE IF truthy(port)
       THEN [script |-> "npm start", port |-> port]
       ELSE [script |-> "index.js", port |-> Undefined]

\* the start command of updateProject
updateStartCommand(type, port) ==
  IF type = "next.js"
  THEN [script |-> "npm start", port |-> port]
  ELSE IF truthy(port)
       THEN [script |-> "index.js", port |-> port]
       ELSE [script |-> "index.js", port |-> Undefined]

\* a deploy of acme/app on a server where `init` ran: the project type and
\* the --port option are the user's
PortsInit ==
  /\ disk = [emptyConfig EXCEPT !.github = TRUE]
  /\ config = disk
  /\ \E t \in ProjectTypes, o \in {Undefined} \cup {Str(x) : x \in PortTexts} :
       cmd = [name |-> "deploy", owner |-> "acme", repo |-> "app",
              type |-> t, pid |-> PidOrder[1], option |-> o,
              port |-> Undefined, probed |-> Undefined, bind |-> "none",
              promise |-> Pending, probes |-> 0, start |-> deployStartCommand(t, Undefined),
              restart |-> updateStartCommand(toLowerCase(t), Undefined)]
  /\ dirs = [n \in DirNames |-> NoDir]
  /\ pm2 = [r \in Repos |-> NoProc]
  /\ temp = [r \in Repos |-> NoDir]
  /\ nginxAvail = [n \in Names |-> NoFile]
  /\ nginxEnabled = {}
  /\ certs = {}
  /\ hooks = {}
  /\ run = 1
  /\ pc = "p_prompt"
  /\ trace = <<>>
  /\ exitCode = "none"
  /\ pre = [disk |-> disk, dirs |-> dirs, pm2 |-> pm2]

\* the prompts: a Node.js project is asked whether it needs a port, and the
\* port is asked for when none was given; port = port || answers.port
PortPrompt ==
  /\ pc = "p_prompt"
  /\ \E needsPort \in BOOLEAN, answer \in {x \in PortTexts : validatePrompt(x)} :
       LET given == truthy(cmd.option)
           asked == (~given /\ cmd.type = "Next.js")
                      \/ (~given /\ cmd.type = "Node.js" /\ needsPort)
           port == IF given THEN cmd.option
                   ELSE IF asked THEN Str(answer) ELSE Undefined
       IN /\ cmd' = [cmd EXCEPT !.port = port]
          /\ IF cmd.type = "Next.js" /\ ~truthy(port)
             THEN Exit("1") /\ Log("noport")
             ELSE /\ pc' = IF truthy(port) THEN "p_probe" ELSE "p_start"
                  /\ Log(IF given THEN "option" ELSE
                         IF asked THEN "prompt" ELSE "portless")
                  /\ UNCHANGED exitCode
  /\ UNCHANGED <<disk, config, dirs, temp, pm2, nginxAvail, nginxEnabled,
                 certs, hooks, run, pre>>

\* one turn of getAvailablePort's loop: isPortInUse(newPort).  A listen
\* that throws rejects the promise and deploy's catch-all prints the error.
PortProbe ==
  /\ pc = "p_probe"
  /\ IF listenTarget(cmd.port) = "throws"
     THEN /\ Exit("0")
          /\ trace' = IF Did("threw") THEN trace ELSE Append(trace, "threw")
          /\ cmd' = [cmd EXCEPT !.probed = cmd.port, !.bind = "none",
                                !.promise = Pending]
     ELSE \E outcome \in BindOutcomes :
            /\ cmd' = [cmd EXCEPT !.probed = cmd.port, !.bind = outcome,
                                  !.promise = isPortInUse(outcome)]
            /\ pc' = IF cmd'.promise.value THEN "p_reprompt" ELSE "p_start"
            /\ trace' = IF Did(outcome) THEN trace ELSE Append(trace, outcome)
            /\ UNCHANGED exitCode
  /\ UNCHANGED <<disk, config, dirs, temp, pm2, nginxAvail, nginxEnabled,
                 certs, hooks, run, pre>>

\* the port is in use: another one is asked for and parsed
PortReprompt ==
  /\ pc = "p_reprompt"
  /\ cmd.probes < MaxProbes
  /\ \E answer \in {x \in PortTexts : validateReprompt(x)} :
       cmd' = [cmd EXCEPT !.port = Num(parseInt(answer)),
                          !.probes = @ + 1]
  /\ pc' = "p_probe"
  /\ trace' = IF Did("reprompt") THEN trace ELSE Append(trace, "reprompt")
  /\ UNCHANGED <<disk, config, dirs, temp, pm2, nginxAvail, nginxEnabled,
                 certs, hooks, run, exitCode, pre>>

\* the start command is run with the port and the record saved
PortStart ==
  /\ pc = "p_start"
  /\ cmd' = [cmd EXCEPT !.start = deployStartCommand(cmd.type, cmd.port)]
  /\ updateProjectsConfig(cmd.pid, cmd.owner, cmd.repo, cmd.port,
                          HookUndefined, toLowerCase(cmd.type))
  /\ pc' = "p_update"
  /\ Log("start")
  /\ UNCHANGED <<dirs, temp, pm2, nginxAvail, nginxEnabled, certs, hooks,
                 run, exitCode, pre>>

\* a later update of the project builds its start command from the record
PortUpdateStart ==
  /\ pc = "p_update"
  /\ LET project == disk.projects[findByRepo(disk.projects, cmd.repo)] IN
     cmd' = [cmd EXCEPT !.restart =
               updateStartCommand(project.type, project.port)]
  /\ Exit("0")
  /\ Log("restart")
  /\ UNCHANGED <<disk, config, dirs, temp, pm2, nginxAvail, nginxEnabled,
                 certs, hooks, run, pre>>

PortsNext ==
  \/ PortPrompt \/ PortProbe \/ PortReprompt \/ PortStart \/ PortUpdateStart

SpecPorts == PortsInit /\ [][PortsNext]_vars

----------------------------------------------------------------------------
(* update on records and names that deploy allows: a record written by an   *)
(* earlier revision, which has no type, and a second tracked project whose  *)
(* repo is named like the first one's backup or failed directory            *)

Neighbours == {"app_backup", "app_failed"}

UpdateRepos == {"app"} \cup Neighbours

UpdateDirNames ==
  UpdateRepos \cup {backupPath(r) : r \in UpdateRepos}
              \cup {failedPath(r) : r \in UpdateRepos}

\* acme/app is deployed, its record with or without a type; a neighbour may
\* be deployed as well, with an .env of its own in its directory
UpdateInit ==
  /\ \E legacy \in BOOLEAN, q \in Neighbours \cup {""} :
       LET first == updatedProjects(
                      [emptyConfig EXCEPT !.github = TRUE], PidOrder[1],
                      "acme", "app", CHOOSE p \in Ports : TRUE,
                      HookUndefined,
                      IF legacy THEN "" ELSE toLowerCase("Next.js"), 0)
       IN
       /\ disk = IF q = "" THEN first
                 ELSE updatedProjects(first, PidOrder[2], "acme", q, NoPort,
                                      HookUndefined, toLowerCase("Node.js"),
                                      0)
       /\ dirs = [n \in UpdateDirNames |->
                   IF n = repoPath("app") THEN [ver |-> 0, env |-> 0]
                   ELSE IF n = repoPath(q) THEN [ver |-> 0, env |-> 1]
                   ELSE NoDir]
       /\ pm2 = [r \in UpdateRepos |->
                  IF r = "app" \/ r = q
                  THEN [status |-> "online", ver |-> 0] ELSE NoProc]
  /\ config = disk
  /\ temp = [r \in UpdateRepos |-> NoDir]
  /\ nginxAvail = [n \in Names |-> NoFile]
  /\ nginxEnabled = {}
  /\ certs = {}
  /\ hooks = {}
  /\ run = 0
  /\ pc = "idle"
  /\ cmd = NoCmd
  /\ trace = <<>>
  /\ exitCode = "none"
  /\ pre = [disk |-> disk, dirs |-> dirs, pm2 |-> pm2]

UpdateNext == UpdateCommand \/ UpdateNotFound \/ updateProject

SpecUpdate == UpdateInit /\ [][UpdateNext]_vars

----------------------------------------------------------------------------
(* config.json read with JSON.parse and written with JSON.stringify *)

\* values of a JSON text and of the object in memory; an object is the
\* sequence of its members, in the order of the text or of insertion
jsNull == [t |-> "null"]
jsUndefined == [t |-> "undefined"]
jsNaN == [t |-> "NaN"]
jsNumber(n) == [t |-> "number", n |-> n]
jsString(s) == [t |-> "string", s |-> s]
jsArray(es) == [t |-> "array", es |-> es]
jsObject(ms) == [t |-> "object", ms |-> ms]
member(k, v) == [key |-> k, value |-> v]

keys(o) == {o.ms[i].key : i \in 1..Len(o.ms)}

\* o[k]: the value of the last member named k
get(o, k) ==
  o.ms[CHOOSE i \in 1..Len(o.ms) :
         o.ms[i].key = k /\ \A j \in (i + 1)..Len(o.ms) : o.ms[j].key # k].value

\* o[k] = v on a member sequence: a known key keeps its place
define(ms, k, v) ==
  IF \E i \in 1..Len(ms) : ms[i].key = k
  THEN [i \in 1..Len(ms) |-> IF ms[i].key = k THEN member(k, v) ELSE ms[i]]
  ELSE Append(ms, member(k, v))

RECURSIVE parse(_)
RECURSIVE parseMembers(_, _)

\* the members of an object text, defined one after the other
parseMembers(ms, acc) ==
  IF ms = <<>> THEN acc
  ELSE parseMembers(Tail(ms),
                    define(acc, Head(ms).key, parse(Head(ms).value)))

\* JSON.parse
parse(text) ==
  IF text.t = "array"
  THEN jsArray([i \in 1..Len(text.es) |-> parse(text.es[i])])
  ELSE IF text.t = "object"
  THEN jsObject(parseMembers(text.ms, <<>>))
  ELSE text

RECURSIVE stringify(_)
RECURSIVE stringifyMembers(_)

\* mutant: members whose value is null are left out like undefined ones
stringifyDropsNull(v) ==
  IF v.t = "array"
  THEN jsArray([i \in 1..Len(v.es) |->
                  IF v.es[i].t = "undefined" THEN jsNull
                  ELSE stringify(v.es[i])])
  ELSE IF v.t = "object"
  THEN jsObject(stringifyMembers(
         SelectSeq(v.ms, LAMBDA m : m.value.t \notin {"undefined", "null"})))
  ELSE IF v.t = "NaN" THEN jsNull
  ELSE v

stringifyMembers(ms) ==
  [i \in 1..Len(ms) |-> member(ms[i].key, stringify(ms[i].value))]

\* JSON.stringify: a member whose value is undefined is left out, an
\* undefined array element and NaN are written as null
stringify(v) ==
  IF v.t = "array"
  THEN jsArray([i \in 1..Len(v.es) |->
                  IF v.es[i].t = "undefined" THEN jsNull
                  ELSE stringify(v.es[i])])
  ELSE IF v.t = "object"
  THEN jsObject(stringifyMembers(
         SelectSeq(v.ms, LAMBDA m : m.value.t # "undefined")))
  ELSE IF v.t = "NaN" THEN jsNull
  ELSE v

RECURSIVE sameJson(_, _)

\* two JSON texts with the same keys and the same values
sameJson(a, b) ==
  IF a.t # b.t THEN FALSE
  ELSE IF a.t = "array"
  THEN /\ Len(a.es) = Len(b.es)
       /\ \A i \in 1..Len(a.es) : sameJson(a.es[i], b.es[i])
  ELSE IF a.t = "object"
  THEN /\ keys(a) = keys(b)
       /\ \A k \in keys(a) : sameJson(get(a, k), get(b, k))
  ELSE a = b

optional(present, k, v) == IF present THEN <<member(k, v)>> ELSE <<>>

\* project records as the revisions of updateProjectsConfig have written
\* them: port, webhookId, type and last_updated may be missing, and
\* webhookId may be null
ProjectTexts ==
  { jsObject(<<member("pid", jsString("a1b2c")),
               member("owner", jsString("acme")),
               member("repo", jsString("app"))>>
             \o optional(port, "port", jsNumber(3000))
             \o hook
             \o optional(type, "type", jsString("next.js"))
             \o optional(stamp, "last_updated", jsString("2024")))
      : port \in BOOLEAN, type \in BOOLEAN, stamp \in BOOLEAN,
        hook \in {<<>>, <<member("webhookId", jsNull)>>,
                  <<member("webhookId", jsNumber(1))>>} }

\* config files: projects, and any of github, packageManager, domains,
\* webhook and email
ConfigTexts ==
  { jsObject(<<member("projects", jsArray(ps))>>
             \o optional(github, "github",
                         jsObject(<<member("username", jsString("acme")),
                                    member("access_token", jsString("t"))>>))
             \o optional(packageManager, "packageManager", jsString("npm"))
             \o optional(domains, "domains", jsArray(<<>>))
             \o optional(webhook, "webhook",
                         jsObject(<<member("webhookUrl", jsString("u"))>>))
             \o optional(email, "email", jsString("e")))
      : github \in BOOLEAN, packageManager \in BOOLEAN, domains \in BOOLEAN,
        webhook \in BOOLEAN, email \in BOOLEAN,
        ps \in {<<>>} \cup {<<r>> : r \in ProjectTexts} }

RoundTripInit ==
  /\ disk \in ConfigTexts
  /\ config = jsUndefined
  /\ dirs = [n \in DirNames |-> NoDir]
  /\ temp = [r \in Repos |-> NoDir]
  /\ pm2 = [r \in Repos |-> NoProc]
  /\ nginxAvail = [n \in Names |-> NoFile]
  /\ nginxEnabled = {}
  /\ certs = {}
  /\ hooks = {}
  /\ run = 0
  /\ pc = "rt_load"
  /\ cmd = NoCmd
  /\ trace = <<>>
  /\ exitCode = "none"
  /\ pre = [disk |-> disk, dirs |-> dirs, pm2 |-> pm2]

\* const config = JSON.parse(fs.readFileSync(configPath, "utf-8"))
RoundTripLoad ==
  /\ pc = "rt_load"
  /\ config' = parse(disk)
  /\ pc' = "rt_save"
  /\ Log("load")
  /\ UNCHANGED <<disk, dirs, temp, pm2, nginxAvail, nginxEnabled, certs,
                 hooks, run, cmd, exitCode, pre>>

\* saveConfig(config) on the object as it was loaded
RoundTripSave ==
  /\ pc = "rt_save"
  /\ disk' = stringify(config)
  /\ pc' = "done"
  /\ Log("save")
  /\ UNCHANGED <<config, dirs, temp, pm2, nginxAvail, nginxEnabled, certs,
                 hooks, run, cmd, exitCode, pre>>

RoundTripNext == RoundTripLoad \/ RoundTripSave

SpecRoundTrip == RoundTripInit /\ [][RoundTripNext]_vars

----------------------------------------------------------------------------
(* Two `update <pid>` processes for the same project at once.  The temp,    *)
(* live, backup and failed paths and pm2 are shared; pc, cmd, config and    *)
(* exitCode hold one value per process.  A step is one file system call or  *)
(* one external command; a rename fails exactly when the file system state  *)
(* makes it fail.                                                           *)

\* a directory holds a version that was installed and built
complete(d) == d # NoDir /\ d.built

OverlapInit ==
  /\ disk = updatedProjects([emptyConfig EXCEPT !.github = TRUE],
                            PidOrder[1], "acme", "app",
                            CHOOSE n \in Ports : TRUE, HookUndefined,
                            toLowerCase("Next.js"), 0)
  /\ \E e \in {0, 1} :
       dirs = [n \in DirNames |->
                 IF n = repoPath("app")
                 THEN [ver |-> 0, env |-> e, built |-> TRUE] ELSE NoDir]
  /\ pm2 = [r \in Repos |->
             IF r = "app" THEN [status |-> "online", ver |-> 0] ELSE NoProc]
  /\ config = [p \in Procs |-> disk]
  /\ temp = [r \in Repos |-> NoDir]
  /\ nginxAvail = [n \in Names |-> NoFile]
  /\ nginxEnabled = {}
  /\ certs = {}
  /\ hooks = {}
  /\ run = 0
  /\ pc = [p \in Procs |-> "idle"]
  /\ cmd = [p \in Procs |-> NoCmd]
  /\ trace = <<>>
  /\ exitCode = [p \in Procs |-> "none"]
  /\ pre = [disk |-> disk, dirs |-> dirs, pm2 |-> pm2]

OverlapGoto(p, next) ==
  pc' = [pc EXCEPT ![p] = next] /\ UNCHANGED exitCode

\* a throw inside updateProject ends in process.exit(1)
OverlapFail(p) ==
  pc' = [pc EXCEPT ![p] = "done"] /\ exitCode' = [exitCode EXCEPT ![p] = "1"]

\* the relay runs `update <pid>` once for each push
OverlapCommand(p) ==
  /\ pc[p] = "idle"
  /\ LET i == findByPid(disk.projects, PidOrder[1]) IN
       cmd' = [cmd EXCEPT ![p] = OnProject("update", disk.projects, i,
                                           FALSE, TRUE)]
  /\ config' = [config EXCEPT ![p] = disk]
  /\ run' = run + 1
  /\ trace' = Append(trace, p)
  /\ OverlapGoto(p, "u_clean")
  /\ UNCHANGED <<disk, dirs, temp, pm2, nginxAvail, nginxEnabled, certs,
                 hooks, pre>>

\* the version a process clones is the one of its position in trace
ownVer(p) == CHOOSE i \in 1..Len(trace) : trace[i] = p

\* if (fs.existsSync(tempPath)) await fs.remove(tempPath)
OverlapClean(p) ==
  /\ pc[p] = "u_clean"
  /\ temp' = [temp EXCEPT ![cmd[p].repo] = NoDir]
  /\ OverlapGoto(p, "u_clone")
  /\ UNCHANGED <<disk, config, dirs, pm2, nginxAvail, nginxEnabled, certs,
                 hooks, run, cmd, trace, pre>>

\* ensureDir and git clone, which needs an empty target directory
OverlapClone(p) ==
  /\ pc[p] = "u_clone"
  /\ \E cloned \in BOOLEAN :
       IF cloned /\ ~existsSync(temp, cmd[p].repo)
       THEN /\ temp' = [temp EXCEPT ![cmd[p].repo] =
                          [ver |-> ownVer(p), env |-> 0, built |-> FALSE]]
            /\ OverlapGoto(p, "u_env")
       ELSE OverlapFail(p) /\ UNCHANGED temp
  /\ UNCHANGED <<disk, config, dirs, pm2, nginxAvail, nginxEnabled, certs,
                 hooks, run, cmd, trace, pre>>

\* the live .env is copied into the temp directory, which must exist
OverlapEnv(p) ==
  /\ pc[p] = "u_env"
  /\ LET liveEnv == dirs[repoPath(cmd[p].repo)].env IN
     IF liveEnv = 0
     THEN OverlapGoto(p, "u_install") /\ UNCHANGED temp
     ELSE IF existsSync(temp, cmd[p].repo)
     THEN /\ temp' = [temp EXCEPT ![cmd[p].repo].env = liveEnv]
          /\ OverlapGoto(p, "u_install")
     ELSE OverlapFail(p) /\ UNCHANGED temp
  /\ UNCHANGED <<disk, config, dirs, pm2, nginxAvail, nginxEnabled, certs,
                 hooks, run, cmd, trace, pre>>

\* cd tempPath && install
OverlapInstall(p) ==
  /\ pc[p] = "u_install"
  /\ \E ok \in BOOLEAN :
       IF ok /\ existsSync(temp, cmd[p].repo)
       THEN OverlapGoto(p, "u_build")
       ELSE OverlapFail(p)
  /\ UNCHANGED <<disk, config, dirs, temp, pm2, nginxAvail, nginxEnabled,
                 certs, hooks, run, cmd, trace, pre>>

\* package.json is read in the temp directory and the build run there
OverlapBuild(p) ==
  /\ pc[p] = "u_build"
  /\ \E outcome \in {"build_error", "built"} :
       IF existsSync(temp, cmd[p].repo)
          /\ buildSuccessful(cmd[p].type, outcome)
       THEN /\ temp' = [temp EXCEPT ![cmd[p].repo].built = TRUE]
            /\ OverlapGoto(p, "u_stop")
       ELSE OverlapFail(p) /\ UNCHANGED temp
  /\ UNCHANGED <<disk, config, dirs, pm2, nginxAvail, nginxEnabled, certs,
                 hooks, run, cmd, trace, pre>>

OverlapStop(p) ==
  /\ pc[p] = "u_stop"
  /\ pm2' = IF pm2[cmd[p].repo] # NoProc
            THEN [pm2 EXCEPT ![cmd[p].repo].status = "stopped"]
            ELSE pm2
  /\ OverlapGoto(p, "u_exists")
  /\ UNCHANGED <<disk, config, dirs, temp, nginxAvail, nginxEnabled, certs,
                 hooks, run, cmd, trace, pre>>

\* if (fs.existsSync(repoPath))
OverlapExists(p) ==
  /\ pc[p] = "u_exists"
  /\ OverlapGoto(p, IF existsSync(dirs, repoPath(cmd[p].repo))
                    THEN "u_remove" ELSE "u_promote")
  /\ UNCHANGED <<disk, config, dirs, temp, pm2, nginxAvail, nginxEnabled,
                 certs, hooks, run, cmd, trace, pre>>

\* if (fs.existsSync(backupPath)) fs.removeSync(backupPath)
OverlapRemove(p) ==
  /\ pc[p] = "u_remove"
  /\ dirs' = [dirs EXCEPT ![backupPath(cmd[p].repo)] = NoDir]
  /\ OverlapGoto(p, "u_backup")
  /\ UNCHANGED <<disk, config, temp, pm2, nginxAvail, nginxEnabled, certs,
                 hooks, run, cmd, trace, pre>>

\* whether fs.renameSync(from, to) of directories goes through
renames(d, from, to) == existsSync(d, from) /\ ~existsSync(d, to)

\* fs.renameSync(repoPath, backupPath)
OverlapBackup(p) ==
  /\ pc[p] = "u_backup"
  /\ IF renames(dirs, repoPath(cmd[p].repo), backupPath(cmd[p].repo))
     THEN /\ dirs' = renameSync(dirs, repoPath(cmd[p].repo),
                                backupPath(cmd[p].repo))
          /\ OverlapGoto(p, "u_promote")
     ELSE OverlapFail(p) /\ UNCHANGED dirs
  /\ UNCHANGED <<disk, config, temp, pm2, nginxAvail, nginxEnabled, certs,
                 hooks, run, cmd, trace, pre>>

\* fs.renameSync(tempPath, repoPath)
OverlapPromote(p) ==
  /\ pc[p] = "u_promote"
  /\ IF existsSync(temp, cmd[p].repo)
        /\ ~existsSync(dirs, repoPath(cmd[p].repo))
     THEN /\ dirs' = [dirs EXCEPT ![repoPath(cmd[p].repo)] =
                        temp[cmd[p].repo]]
          /\ temp' = [temp EXCEPT ![cmd[p].repo] = NoDir]
          /\ OverlapGoto(p, "u_delete")
     ELSE OverlapFail(p) /\ UNCHANGED <<dirs, temp>>
  /\ UNCHANGED <<disk, config, pm2, nginxAvail, nginxEnabled, certs, hooks,
                 run, cmd, trace, pre>>

OverlapDelete(p) ==
  /\ pc[p] = "u_delete"
  /\ pm2' = [pm2 EXCEPT ![cmd[p].repo] = NoProc]
  /\ OverlapGoto(p, "u_start")
  /\ UNCHANGED <<disk, config, dirs, temp, nginxAvail, nginxEnabled, certs,
                 hooks, run, cmd, trace, pre>>

\* cd repoPath && pm2 start
OverlapStart(p) ==
  /\ pc[p] = "u_start"
  /\ \E ok \in BOOLEAN :
       IF ok /\ existsSync(dirs, repoPath(cmd[p].repo))
       THEN /\ pm2' = [pm2 EXCEPT ![cmd[p].repo] =
                         [status |-> "online",
                          ver |-> dirs[repoPath(cmd[p].repo)].ver]]
            /\ OverlapGoto(p, "u_save")
       ELSE OverlapGoto(p, "u_failed") /\ UNCHANGED pm2
  /\ UNCHANGED <<disk, config, dirs, temp, nginxAvail, nginxEnabled, certs,
                 hooks, run, cmd, trace, pre>>

\* fs.renameSync(repoPath, `${repoPath}_failed`)
OverlapRollbackFailed(p) ==
  /\ pc[p] = "u_failed"
  /\ IF renames(dirs, repoPath(cmd[p].repo), failedPath(cmd[p].repo))
     THEN /\ dirs' = renameSync(dirs, repoPath(cmd[p].repo),
                                failedPath(cmd[p].repo))
          /\ OverlapGoto(p, "u_restore")
     ELSE OverlapFail(p) /\ UNCHANGED dirs
  /\ UNCHANGED <<disk, config, temp, pm2, nginxAvail, nginxEnabled, certs,
                 hooks, run, cmd, trace, pre>>

\* fs.renameSync(backupPath, repoPath), then the start error is thrown
OverlapRollbackRestore(p) ==
  /\ pc[p] = "u_restore"
  /\ dirs' = IF renames(dirs, backupPath(cmd[p].repo), repoPath(cmd[p].repo))
             THEN renameSync(dirs, backupPath(cmd[p].repo),
                             repoPath(cmd[p].repo))
             ELSE dirs
  /\ OverlapFail(p)
  /\ UNCHANGED <<disk, config, temp, pm2, nginxAvail, nginxEnabled, certs,
                 hooks, run, cmd, trace, pre>>

\* the timestamp is saved from this process's config object; exit code 0
OverlapSave(p) ==
  /\ pc[p] = "u_save"
  /\ config' = [config EXCEPT ![p].projects[cmd[p].idx].last_updated =
                                ownVer(p)]
  /\ saveConfig(config'[p])
  /\ pc' = [pc EXCEPT ![p] = "done"]
  /\ exitCode' = [exitCode EXCEPT ![p] = "0"]
  /\ UNCHANGED <<dirs, temp, pm2, nginxAvail, nginxEnabled, certs, hooks,
                 run, cmd, trace, pre>>

OverlapNext ==
  \E p \in Procs :
    \/ OverlapCommand(p) \/ OverlapClean(p) \/ OverlapClone(p)
    \/ OverlapEnv(p) \/ OverlapInstall(p) \/ OverlapBuild(p)
    \/ OverlapStop(p) \/ OverlapExists(p) \/ OverlapRemove(p)
    \/ OverlapBackup(p) \/ OverlapPromote(p) \/ OverlapDelete(p)
    \/ OverlapStart(p) \/ OverlapRollbackFailed(p)
    \/ OverlapRollbackRestore(p) \/ OverlapSave(p)

SpecOverlap == OverlapInit /\ [][OverlapNext]_vars

----------------------------------------------------------------------------
(* Properties *)

Before(a, b) ==
  \E i \in 1..Len(trace), j \in 1..Len(trace) :
    i < j /\ trace[i] = a /\ trace[j] = b

Tracked(ps, repo) == \E i \in 1..Len(ps) : ps[i].repo = repo

RepoUnique(ps) ==
  \A i \in 1..Len(ps), j \in 1..Len(ps) : i # j => ps[i].repo # ps[j].repo

live == IF cmd.repo \in Repos THEN dirs[repoPath(cmd.repo)] ELSE NoDir

liveBefore ==
  IF cmd.repo \in Repos THEN pre.dirs[repoPath(cmd.repo)] ELSE NoDir

\* C1: no two records of config.projects have the same repo, in memory and
\* on disk; a deploy of a repo that is already tracked ends with exit code 1
\* and leaves the records as they were, in memory and on disk
C1_RepoUniqueDuplicateRejected ==
  /\ RepoUnique(disk.projects)
  /\ RepoUnique(config.projects)
  /\ (cmd.name = "deploy" /\ Tracked(pre.disk.projects, cmd.repo)
        /\ pc # "d_validate")
       => /\ pc = "done"
          /\ exitCode = "1"
          /\ disk.projects = pre.disk.projects
          /\ config.projects = pre.disk.projects

C1_Witness ==
  /\ pc = "done"
  /\ cmd.name = "deploy"
  /\ trace = <<"duplicate">>
  /\ Len(disk.projects) = 2

\* C2: after an update of a deployed project that failed at the start step,
\* the live directory holds what it held before the update and the failed
\* new version is kept at <repo>_failed
C2_RollbackRestoresLive ==
  (pc = "done" /\ cmd.name = "update" /\ Did("start_fail")
     /\ liveBefore # NoDir)
    => /\ live = liveBefore
       /\ dirs[failedPath(cmd.repo)].ver = run

\* C3 as stated: the live directory holds the new version only once that
\* version has been started successfully
C3_NoPromotionBeforeStart ==
  (cmd.name = "update" /\ live.ver = run) => Did("start")

\* C3 as amended: the live directory is left as it was until the new version
\* has been cloned, installed and built in the temp directory; the promotion
\* follows the build, and the start is attempted only after the promotion
C3_PromotionOnlyAfterBuild ==
  cmd.name = "update" =>
    /\ live # liveBefore
         => Did("clone") /\ Did("install") /\ Did("build")
    /\ Did("promote")
         => Before("install", "promote") /\ Before("build", "promote")
    /\ Did("start") => Before("promote", "start")
    /\ Did("start_fail") => Before("promote", "start_fail")

C3_Witness ==
  /\ pc = "done"
  /\ cmd.name = "update"
  /\ Did("promote")
  /\ Did("start_fail")
  /\ live = liveBefore

\* C4: the pids of the records of config.projects are pairwise distinct
C4_PidsDistinct ==
  \A i \in 1..Len(disk.projects), j \in 1..Len(disk.projects) :
    i # j => disk.projects[i].pid # disk.projects[j].pid

\* C5: a delete that ran to its end leaves no proxy file and no symlink of
\* a domain that was attached to the deleted project
C5_DeleteRemovesDomainFiles ==
  (pc = "done" /\ cmd.name = "delete" /\ Did("save"))
    => \A i \in 1..Len(pre.disk.domains) :
         pre.disk.domains[i].pid = cmd.pid
           => /\ nginxAvail[pre.disk.domains[i].domain] = NoFile
              /\ pre.disk.domains[i].domain \notin nginxEnabled

\* C6: in a confirmed delete every removal is carried out whatever the
\* others did: the directory removal, the proxy clean-up, the webhook removal
\* when the record has a webhook id, and the save of the record removals
C6_RemovalsIndependent ==
  (pc = "done" /\ cmd.name = "delete" /\ Did("confirmed"))
    => /\ Did("rm") \/ Did("rm_fail")
       /\ Did("nginx") \/ Did("nginx_fail")
       /\ cmd.webhookId \notin {HookNull, HookUndefined}
            => Did("hook") \/ Did("hook_fail")
       /\ Did("save")
       /\ ~Tracked(disk.projects, cmd.repo)

\* C7: after a delete that ran to its end the file has no record of that
\* repo and no domain of its pid, and the records of the other projects and
\* of their domains are as before
C7_DeleteCascade ==
  (pc = "done" /\ cmd.name = "delete" /\ Did("save"))
    => /\ ~Tracked(disk.projects, cmd.repo)
       /\ \A i \in 1..Len(disk.domains) : disk.domains[i].pid # cmd.pid
       /\ disk.projects =
            SelectSeq(pre.disk.projects, LAMBDA p : p.repo # cmd.repo)
       /\ \A i \in 1..Len(pre.disk.domains) :
            (\E k \in 1..Len(disk.projects) :
               disk.projects[k].pid = pre.disk.domains[i].pid)
              => \E j \in 1..Len(disk.domains) :
                   disk.domains[j] = pre.disk.domains[i]

\* C8: a deploy that ran to its end has added exactly one record, the only
\* one of its repo, with the owner, repo, port and lower-cased type collected
C8_DeployPersistsRecord ==
  (pc = "done" /\ cmd.name = "deploy" /\ Did("save"))
    => LET ps == disk.projects
           n == Len(pre.disk.projects)
       IN /\ Len(ps) = n + 1
          /\ SubSeq(ps, 1, n) = pre.disk.projects
          /\ Cardinality({i \in 1..Len(ps) : ps[i].repo = cmd.repo}) = 1
          /\ ps[n + 1].owner = cmd.owner
          /\ ps[n + 1].repo = cmd.repo
          /\ ps[n + 1].port = cmd.port
          /\ ps[n + 1].type =
               (IF cmd.type = "Next.js" THEN "next.js" ELSE "node.js")

C8_Witness ==
  /\ pc = "done"
  /\ cmd.name = "deploy"
  /\ Did("save")
  /\ cmd.type = "Node.js"
  /\ Len(disk.projects) = 2

\* C9: once install or build has failed, deploy has ended with exit code 1:
\* no start, no webhook registration and no save ran, and the config, in
\* memory and on disk, and the supervisor are as before
C9_DeployAbortsOnInstallOrBuildFailure ==
  (cmd.name = "deploy" /\ (Did("install_fail") \/ Did("build_fail")))
    => /\ pc = "done"
       /\ exitCode = "1"
       /\ ~Did("start") /\ ~Did("start_fail")
       /\ ~Did("hook") /\ ~Did("hook_fail") /\ ~Did("hook_cancelled")
       /\ ~Did("save")
       /\ disk = pre.disk
       /\ config = pre.disk
       /\ pm2 = pre.pm2

C9_Witness ==
  /\ pc = "done"
  /\ cmd.name = "deploy"
  /\ Did("build_fail")
  /\ Len(disk.projects) = 1

\* C10: once the clone, the install or the build (the .next check of a
\* Next.js project included) has failed, update has ended with exit code 1:
\* nothing was stopped, renamed or saved, and the projects directory, the
\* supervisor and the config file are as before
C10_UpdateFailureInTempChangesNothing ==
  (cmd.name = "update"
     /\ \/ Did("clone_fail") \/ Did("install_fail") \/ Did("build_fail")
        \/ Did("no_package_json") \/ Did("build_error")
        \/ (cmd.type = "next.js" /\ Did("built_without_next")))
    => /\ pc = "done"
       /\ exitCode = "1"
       /\ ~Did("stop") /\ ~Did("backup") /\ ~Did("promote") /\ ~Did("save")
       /\ dirs = pre.dirs
       /\ pm2 = pre.pm2
       /\ disk = pre.disk

C10_Witness ==
  /\ pc = "done"
  /\ cmd.name = "update"
  /\ cmd.type = "next.js"
  /\ Did("built_without_next")
  /\ pm2[cmd.repo].status = "online"
  /\ existsSync(temp, cmd.repo)

\* the record of the running command's repo in the config file
saved == disk.projects[findByRepo(disk.projects, cmd.repo)]

\* C11 as stated: a deploy whose webhook registration yielded no hook id,
\* because the POST failed or because the relay is not configured, has saved
\* its record with webhookId null
C11_WebhookFailureNull ==
  (pc = "done" /\ cmd.name = "deploy" /\ Did("save")
     /\ (Did("hook_fail") \/ Did("hook_cancelled")))
    => saved.webhookId = HookNull

\* C11 as amended: a registration that yields no hook id does not end
\* deploy; the record is saved and the command exits 0, with webhookId null
\* after a failed POST and with no webhookId (undefined) when the relay is
\* not configured; no hook was created
C11_WebhookFailureNoAbort ==
  (cmd.name = "deploy" /\ (Did("hook_fail") \/ Did("hook_cancelled")))
    => /\ pc \in {"d_save", "done"}
       /\ cmd.webhookId = (IF Did("hook_fail") THEN HookNull
                           ELSE HookUndefined)
       /\ cmd.webhookId \notin hooks
       /\ pc = "done"
            => /\ exitCode = "0"
               /\ Did("save")
               /\ Tracked(disk.projects, cmd.repo)
               /\ saved.webhookId = cmd.webhookId

C11_Witness ==
  /\ pc = "done"
  /\ cmd.name = "deploy"
  /\ Did("hook_fail")
  /\ Did("save")
  /\ saved.webhookId = HookNull

\* C12: when the relay is not configured and the user answers yes to the
\* prompt, the relay is set up before the POST is issued; the registration
\* is cancelled only after the answer no
C12_ConfirmedRelayProvisioned ==
  cmd.name = "deploy" =>
    /\ Did("answer_yes")
         => \/ Did("relay_fail")
            \/ Before("relay_setup", "hook")
            \/ Before("relay_setup", "hook_fail")
    /\ Did("hook_cancelled") => Did("answer_no")

\* the invocation that saved last
lastWriter == trace[Len(trace)]

\* what a process's own command changes in the config it loaded
ownChange(p) ==
  IF cmd[p].name = "deploy"
  THEN [pre[p] EXCEPT !.projects = Append(@, config[p].projects[Len(@) + 1])]
  ELSE [pre[p] EXCEPT !.projects[cmd[p].idx].last_updated =
          config[p].projects[cmd[p].idx].last_updated]

\* C13: once an invocation has saved, the file equals the in-memory config
\* of the one that saved last, which is what that one loaded plus its own
\* change: whatever another invocation saved after that load is not in it
C13_LastWriterWins ==
  trace # <<>> =>
    /\ disk = config[lastWriter]
    /\ pc[lastWriter] = "done" => disk = ownChange(lastWriter)

\* a deploy saved its record while an update was running, and the update's
\* timestamp save erased it
C13_Witness ==
  /\ Len(trace) >= 2
  /\ \E q \in Procs :
       /\ q # lastWriter
       /\ trace[Len(trace) - 1] = q
       /\ pc[q] = "done"
       /\ cmd[q].name = "deploy"
       /\ Tracked(config[q].projects, cmd[q].repo)
       /\ ~Tracked(pre[lastWriter].projects, cmd[q].repo)
       /\ cmd[lastWriter].name = "update"
       /\ ~Tracked(disk.projects, cmd[q].repo)

\* C14: after a call of removeDomain that completed, the domain has no
\* proxy file and no symlink, its certificate is gone, and no record of it
\* is left in memory or in the file
C14_RemoveDomainClean ==
  (pc = "done" /\ cmd.name = "removeDomain" /\ trace[2] = "completed")
    => /\ nginxAvail[trace[1]] = NoFile
       /\ trace[1] \notin nginxEnabled
       /\ trace[1] \notin certs
       /\ ~hasDomain(config, trace[1])
       /\ ~hasDomain(disk, trace[1])

\* C15: every domain record in the config file has the pid of some project
\* record in the file
C15_DomainsReferenceProjects ==
  \A i \in 1..Len(disk.domains) :
    \E k \in 1..Len(disk.projects) :
      disk.projects[k].pid = disk.domains[i].pid

\* a project with a domain attached was deleted and the delete was saved
C15_Witness ==
  /\ pc = "done"
  /\ cmd.name = "delete"
  /\ Did("save")
  /\ \E i \in 1..Len(pre.disk.domains) : pre.disk.domains[i].pid = cmd.pid
  /\ Len(pre.disk.projects) = 2
  /\ Len(disk.projects) = 1

DomainUnique(ds) ==
  \A i \in 1..Len(ds), j \in 1..Len(ds) :
    i # j => ds[i].domain # ds[j].domain

\* C16: no two domain records have the same hostname, in memory and in the
\* config file
C16_DomainsUnique ==
  /\ DomainUnique(disk.domains)
  /\ DomainUnique(config.domains)

\* a hostname that had a record was added again, the overwrite accepted
C16_Witness ==
  /\ pc = "done"
  /\ cmd.name = "add"
  /\ Did("added")
  /\ \E d \in Domains : hasDomain(pre.disk, d) /\ hasDomain(disk, d)
  /\ Len(disk.domains) = 1

\* C17: adding a domain to a project that has no port writes no proxy file
\* and records no domain
C17_NoDomainWithoutPort ==
  (cmd.name = "add" /\ cmd.port = NoPort)
    => /\ \A n \in Names : nginxAvail[n] # NoPort
       /\ ~Did("added")

\* the number a port value denotes
portNumber(v) == IF v.kind = "number" THEN v.num ELSE Number(v.text)

\* C18: the port that deploy hands to the start command and saves in the
\* record denotes an integer from 1 to 65535, and the last isPortInUse, for
\* that very port, resolved false
C18_PortFreeAndValid ==
  (Did("start") /\ truthy(cmd.port))
    => /\ portNumber(cmd.port) # NaN
       /\ portNumber(cmd.port) >= 1
       /\ portNumber(cmd.port) <= MaxPort
       /\ cmd.start.port = cmd.port
       /\ saved.port = cmd.port
       /\ cmd.probed = cmd.port
       /\ cmd.promise.state = "resolved"
       /\ ~cmd.promise.value

\* C19: deploy and update build the same start command from the project's
\* type and port: `npm start` with the port for Next.js, index.js for
\* Node.js, the port passed when there is one
C19_SameStartCommand ==
  Did("restart")
    => /\ cmd.start = cmd.restart
       /\ cmd.start.script =
            (IF cmd.type = "Next.js" THEN "npm start" ELSE "index.js")
       /\ cmd.start.port = (IF truthy(cmd.port) THEN cmd.port ELSE Undefined)

\* C20: after a probe the promise is resolved, by exactly one call of
\* resolve, with true when the bind failed with EADDRINUSE and false for
\* every other outcome
C20_InUseExactlyOnEaddrinuse ==
  (cmd.name = "deploy" /\ pc \in {"p_reprompt", "p_start"}
     /\ cmd.probed # Undefined)
    => /\ cmd.promise.state = "resolved"
       /\ cmd.promise.calls = 1
       /\ cmd.promise.value = (cmd.bind = "EADDRINUSE")
       /\ \A o \in BindOutcomes :
            /\ isPortInUse(o).state = "resolved"
            /\ isPortInUse(o).calls = 1
            /\ isPortInUse(o).value = (o = "EADDRINUSE")

C20_Witness ==
  /\ pc = "p_start"
  /\ Did("EADDRINUSE")
  /\ Did("reprompt")
  /\ cmd.bind = "EACCES"
  /\ cmd.promise = [state |-> "resolved", value |-> FALSE, calls |-> 1]

\* C21: an update of a record that has no type does not fail at the build
\* step when the build itself ran and produced its output
C21_TypelessRecordUpdatable ==
  (cmd.name = "update" /\ cmd.type = "" /\ Did("built"))
    => ~Did("build_fail")

\* C29: while and after a project is updated, the live directory of every
\* other tracked project is as it was when the update began
C29_OtherProjectsUntouched ==
  cmd.name = "update" =>
    \A k \in 1..Len(pre.disk.projects) :
      pre.disk.projects[k].repo # cmd.repo
        => dirs[repoPath(pre.disk.projects[k].repo)] =
             pre.dirs[repoPath(pre.disk.projects[k].repo)]

\* C23: in every update run in which the supervised process is stopped or
\* deleted, the new version was cloned, installed and built in the temp
\* directory before that, and none of these steps failed
C23_StopOnlyAfterBuild ==
  cmd.name = "update" =>
    /\ Did("stop")
         => /\ Before("clone", "stop")
            /\ Before("install", "stop")
            /\ Before("build", "stop")
    /\ Did("delete")
         => /\ Before("clone", "delete")
            /\ Before("install", "delete")
            /\ Before("build", "delete")
    /\ (Did("stop") \/ Did("delete"))
         => ~(Did("clone_fail") \/ Did("install_fail") \/ Did("build_fail"))
    /\ (cmd.repo \in Repos /\ pm2[cmd.repo] # pre.pm2[cmd.repo])
         => Did("stop")

C23_Witness ==
  /\ cmd.name = "update"
  /\ Did("stop")
  /\ Did("delete")
  /\ pre.pm2[cmd.repo].status = "online"
  /\ pm2[cmd.repo] = NoProc

\* C24: during an update the config file changes only by the last_updated of
\* the updated record, and only after the start succeeded; an update that
\* fails at any step, an unknown pid included, leaves the file as it was and
\* exits with code 1, and `update <pid>` exits with code 0 only on success
C24_ConfigOnlyTimestampOnSuccess ==
  cmd.name = "update" =>
    /\ \/ disk = pre.disk
       \/ /\ Did("save")
          /\ Before("start", "save")
          /\ disk = [pre.disk EXCEPT !.projects[cmd.idx].last_updated = run]
    /\ (pc = "done" /\ ~Did("save"))
         => disk = pre.disk /\ exitCode = "1"
    /\ (pc = "done" /\ cmd.byPid /\ exitCode = "0")
         => Did("start") /\ Did("save")

C24_Witness ==
  /\ pc = "done"
  /\ cmd.name = "update"
  /\ cmd.byPid
  /\ Did("start_fail")
  /\ exitCode = "1"
  /\ disk = pre.disk
  /\ Len(disk.projects) > 0

\* C25: after a successful update the live directory holds the .env file it
\* held before the update, whenever there was one and the user did not
\* choose to edit it; `update <pid>` never offers the edit
C25_EnvPreserved ==
  cmd.name = "update" =>
    /\ cmd.byPid => ~Did("env_edit")
    /\ (pc = "done" /\ Did("save") /\ liveBefore.env # 0
          /\ ~Did("env_edit"))
         => live.env = liveBefore.env

C25_Witness ==
  /\ pc = "done"
  /\ cmd.name = "update"
  /\ cmd.byPid
  /\ Did("save")
  /\ liveBefore.env # 0
  /\ live.ver = run
  /\ live.env = liveBefore.env

\* C26: when an update of a deployed project has terminated, the live
\* directory exists and holds the previous version or the new version
\* (the failed promotion after a successful backup included)
C26_LiveCompleteAtExit ==
  (pc = "done" /\ cmd.name = "update" /\ liveBefore # NoDir)
    => /\ live # NoDir
       /\ live.ver \in {liveBefore.ver, run}

\* C27: after an update that failed at the start step and was rolled back,
\* the project's process runs from the restored directory
C27_ServedAfterRollback ==
  (pc = "done" /\ cmd.name = "update" /\ Did("start_fail")
     /\ liveBefore # NoDir /\ live = liveBefore
     /\ pre.pm2[cmd.repo].status = "online")
    => /\ pm2[cmd.repo].status = "online"
       /\ pm2[cmd.repo].ver = live.ver

\* C28: an update that fails at the start step while a <repo>_failed
\* directory is left over from an earlier failed update still restores the
\* live directory, and the failed version is not at the live path
C28_RollbackWithLeftover ==
  (pc = "done" /\ cmd.name = "update" /\ Did("start_fail")
     /\ liveBefore # NoDir /\ existsSync(pre.dirs, failedPath(cmd.repo)))
    => /\ live = liveBefore
       /\ live.ver # run

\* C22: the config file written by a save of the object as it was loaded
\* has the same keys and the same values as the file that was loaded,
\* whichever optional fields the file has
C22_LoadSaveRoundTrip ==
  pc = "done" => sameJson(disk, pre.disk)

C22_Witness ==
  /\ pc = "done"
  /\ trace = <<"load", "save">>
  /\ keys(pre.disk) = {"projects", "email"}
  /\ Len(get(pre.disk, "projects").es) = 1
  /\ keys(get(pre.disk, "projects").es[1]) = {"pid", "owner", "repo", "webhookId"}
  /\ get(get(pre.disk, "projects").es[1], "webhookId") = jsNull
  /\ disk = pre.disk

\* C30: when two update runs of the same project have both terminated,
\* however their steps were interleaved, the live directory exists and
\* holds a complete version of the project
C30_OverlapLeavesLive ==
  (\A p \in Procs : pc[p] = "done")
    => complete(dirs[repoPath("app")])

====
